---- MODULE Spec2Model ----
(***************************************************************************)
(* A model of the journal / category query engine: the domain classes of   *)
(* models.py, the identifier normaliser and the repositories of            *)
(* repositories.py, the query handlers and the Basic and Full query        *)
(* engines of engine.py.                                                   *)
(*                                                                         *)
(* A Python str is a sequence of one-character strings.  A Python set or   *)
(* dict whose iteration order the interpreter leaves open is a TLA+ set or *)
(* function; an OrderedDict, a list and a DataFrame keep their order as a  *)
(* sequence.                                                               *)
(***************************************************************************)
EXTENDS Integers, Sequences, FiniteSets, TLC

VARIABLES catObj, areaObj, journalObj, journalQuery, categoryQuery, store, db, last

vars == <<catObj, areaObj, journalObj, journalQuery, categoryQuery, store, db, last>>

(***************************************************************************)
(* Strings                                                                 *)
(***************************************************************************)

Digits == {"0", "1", "2", "3", "4", "5", "6", "7", "8", "9"}

UpperCase == <<"A", "B", "C", "D", "E", "F", "G", "H", "I", "J", "K", "L", "M",
               "N", "O", "P", "Q", "R", "S", "T", "U", "V", "W", "X", "Y", "Z">>

LowerCase == <<"a", "b", "c", "d", "e", "f", "g", "h", "i", "j", "k", "l", "m",
               "n", "o", "p", "q", "r", "s", "t", "u", "v", "w", "x", "y", "z">>

Whitespace == {" "}

EmptyStr == <<>>

Range(s) == {s[i] : i \in DOMAIN s}

\* str.lower() on the upper-case letters
LowerOf ==
    [ch \in {UpperCase[i] : i \in DOMAIN UpperCase} |->
        LowerCase[CHOOSE i \in DOMAIN UpperCase : UpperCase[i] = ch]]

\* one character of str.lower()
lower_char(ch) == IF ch \in DOMAIN LowerOf THEN LowerOf[ch] ELSE ch

\* a lower() that leaves the letters as they are
lower_kept(s) == [i \in DOMAIN s |-> s[i]]

\* str.lower()
lower(s) == [i \in DOMAIN s |-> lower_char(s[i])]

\* str.strip(): drop the leading and the trailing whitespace
strip(s) ==
    IF \A i \in DOMAIN s : s[i] \in Whitespace
    THEN EmptyStr
    ELSE LET first == CHOOSE i \in DOMAIN s :
                          /\ s[i] \notin Whitespace
                          /\ \A k \in 1..(i - 1) : s[k] \in Whitespace
             lst == CHOOSE i \in DOMAIN s :
                          /\ s[i] \notin Whitespace
                          /\ \A k \in (i + 1)..Len(s) : s[k] \in Whitespace
         IN SubSeq(s, first, lst)

\* the characters of the class [0-9a-z]
KeyChars == Digits \cup {LowerCase[i] : i \in DOMAIN LowerCase}

IsKeyChar(ch) == ch \in KeyChars

\* re.sub(r"[^0-9a-z]+", "", s, count=1): only the first run of characters
\* outside the class is deleted
sub_non_key_once(s) ==
    IF \A i \in DOMAIN s : s[i] \in KeyChars THEN s
    ELSE LET from == CHOOSE i \in DOMAIN s :
                         s[i] \notin KeyChars /\ \A k \in 1..(i - 1) : s[k] \in KeyChars
             upto == CHOOSE j \in from..Len(s) :
                         /\ \A k \in from..j : s[k] \notin KeyChars
                         /\ j = Len(s) \/ s[j + 1] \in KeyChars
         IN SubSeq(s, 1, from - 1) \o SubSeq(s, upto + 1, Len(s))

\* re.sub(r"[^0-9a-z]+", "", s): every character outside the class is deleted
sub_non_key(s) == SelectSeq(s, IsKeyChar)

\* str.replace("-", "")
remove_hyphens(s) == SelectSeq(s, LAMBDA ch : ch # "-")

\* _normalise_identifier for a str argument
normalise_identifier(value) == sub_non_key(lower(strip(value)))

\* an Optional[str] argument: None, or a str
Absent == [present |-> FALSE, str |-> EmptyStr]

Str(s) == [present |-> TRUE, str |-> s]

\* _normalise_identifier for an Optional[str] argument
normalise_identifier_of(value) ==
    IF ~value.present THEN EmptyStr ELSE normalise_identifier(value.str)

\* {_normalise_identifier(x) for x in items or [] if x}
normalised_set(items) ==
    {normalise_identifier(items[i]) : i \in {k \in DOMAIN items : items[k] # EmptyStr}}

(***************************************************************************)
(* Ordered dictionaries: a sequence of [key, ref] entries, one per key     *)
(***************************************************************************)

Keys(d) == {d[i].key : i \in DOMAIN d}

Refs(d) == {d[i].ref : i \in DOMAIN d}

\* OrderedDict.setdefault(key, ref): an existing key keeps its entry
setdefault(d, key, ref) ==
    IF key \in Keys(d) THEN d ELSE Append(d, [key |-> key, ref |-> ref])

(***************************************************************************)
(* models.py: Category, Area and Journal objects.  Objects live in three   *)
(* heaps, catObj, areaObj and journalObj, indexed by object reference; a   *)
(* linked set is an OrderedDict from the linked entity's identifier to the *)
(* reference of the linked object.                                         *)
(***************************************************************************)

\* IdentifiableEntity.__init__ for a Category: (entity_id or "").strip()
Category(category_id) ==
    [id |-> strip(category_id), quartiles |-> <<>>, areas |-> <<>>]

\* IdentifiableEntity.__init__ for an Area
Area(area_id) == [id |-> strip(area_id), categories |-> <<>>]

\* Journal.__init__: the fields the queries read and the two linked sets
Journal(identifier, title, publisher, license_, has_apc, has_doaj_seal) ==
    [id |-> strip(identifier), title |-> strip(title), publisher |-> strip(publisher),
     license |-> strip(license_), apc |-> has_apc, doaj_seal |-> has_doaj_seal,
     categories |-> <<>>, areas |-> <<>>]

\* Category.addQuartile
addQuartile(cats, c, quartile) ==
    IF quartile # EmptyStr /\ strip(quartile) # EmptyStr
       /\ strip(quartile) \notin Range(cats[c].quartiles)
    THEN [cats EXCEPT ![c].quartiles = Append(@, strip(quartile))]
    ELSE cats

\* Category.getQuartiles
getQuartiles(cat) == cat.quartiles

\* Category._link_area on the heap H = [cats, areas]
Category_link_area(H, c, a) ==
    IF H.areas[a].id # EmptyStr
    THEN [H EXCEPT !.cats[c].areas = setdefault(@, H.areas[a].id, a)]
    ELSE H

\* Area._link_category
Area_link_category(H, a, c) ==
    IF H.cats[c].id # EmptyStr
    THEN [H EXCEPT !.areas[a].categories = setdefault(@, H.cats[c].id, c)]
    ELSE H

\* Category.addArea
Category_addArea(H, c, a) ==
    IF H.areas[a].id # EmptyStr
    THEN Area_link_category(Category_link_area(H, c, a), a, c)
    ELSE H

\* Area.addCategory
Area_addCategory(H, a, c) ==
    IF H.cats[c].id # EmptyStr
    THEN Area_link_category(Category_link_area(H, c, a), a, c)
    ELSE H

\* Category.getAreas / Area.getCategories / Journal.getCategories / Journal.getAreas:
\* the linked objects, in insertion order
getAreas(obj) == [i \in DOMAIN obj.areas |-> obj.areas[i].ref]

getCategories(obj) == [i \in DOMAIN obj.categories |-> obj.categories[i].ref]

\* Journal.addCategory
Journal_addCategory(journal, category_id, c) ==
    IF category_id # EmptyStr
    THEN [journal EXCEPT !.categories = setdefault(@, category_id, c)]
    ELSE journal

\* Journal.addArea
Journal_addArea(journal, area_id, a) ==
    IF area_id # EmptyStr
    THEN [journal EXCEPT !.areas = setdefault(@, area_id, a)]
    ELSE journal

(***************************************************************************)
(* The object pool of the specification SpecLinks: callers construct these *)
(* objects and then call addArea, addCategory and addQuartile on them in   *)
(* any order.                                                              *)
(***************************************************************************)

sC1 == <<"C", "1">>
sC2 == <<"C", "2">>
sA1 == <<"A", "1">>
sA2 == <<"A", "2">>
sQ1 == <<"Q", "1">>
sQ2 == <<"Q", "2">>

CatRefs == {"c0", "c1", "c2"}

AreaRefs == {"a0", "a1", "a2"}

JournalRefs == {"j1"}

\* the identifier each pooled object is constructed with
PoolId(ref) ==
    CASE ref = "c0" -> EmptyStr
      [] ref = "c1" -> sC1
      [] ref = "c2" -> sC1
      [] ref = "a0" -> EmptyStr
      [] ref = "a1" -> sA1
      [] ref = "a2" -> sA2
      [] ref = "j1" -> <<"J", "1">>

PoolQuartiles == {sQ1, <<" ", "Q", "1">>, sQ2, <<" ">>}

\* the value of the engine's variables while the object pool is exercised
Idle == [op |-> "none", args |-> <<>>, raised |-> "none", value |-> <<>>,
         heap |-> [cats |-> <<>>, areas |-> <<>>]]

LinksInit ==
    /\ catObj = [c \in CatRefs |-> Category(PoolId(c))]
    /\ areaObj = [a \in AreaRefs |-> Area(PoolId(a))]
    /\ journalObj = [j \in JournalRefs |-> Journal(PoolId(j), EmptyStr, EmptyStr, EmptyStr, FALSE, FALSE)]
    /\ journalQuery = <<>>
    /\ categoryQuery = <<>>
    /\ store = <<>>
    /\ db = <<>>
    /\ last = Idle

engineVars == <<journalQuery, categoryQuery, store, db, last>>

CallCategoryAddArea(c, a) ==
    LET H == Category_addArea([cats |-> catObj, areas |-> areaObj], c, a)
    IN /\ catObj' = H.cats
       /\ areaObj' = H.areas
       /\ UNCHANGED <<journalObj, engineVars>>

CallAreaAddCategory(a, c) ==
    LET H == Area_addCategory([cats |-> catObj, areas |-> areaObj], a, c)
    IN /\ catObj' = H.cats
       /\ areaObj' = H.areas
       /\ UNCHANGED <<journalObj, engineVars>>

CallAddQuartile(c, q) ==
    /\ catObj' = addQuartile(catObj, c, q)
    /\ UNCHANGED <<areaObj, journalObj, engineVars>>

\* a Journal.addCategory that also registers the journal with the category
CallJournalAddCategory_back(j, c) ==
    /\ journalObj' = [journalObj EXCEPT ![j] = Journal_addCategory(@, catObj[c].id, c)]
    /\ catObj' = [catObj EXCEPT ![c].areas = setdefault(@, journalObj[j].id, j)]
    /\ UNCHANGED <<areaObj, engineVars>>

CallJournalAddCategory(j, c) ==
    /\ journalObj' = [journalObj EXCEPT ![j] = Journal_addCategory(@, catObj[c].id, c)]
    /\ UNCHANGED <<catObj, areaObj, engineVars>>

CallJournalAddArea(j, a) ==
    /\ journalObj' = [journalObj EXCEPT ![j] = Journal_addArea(@, areaObj[a].id, a)]
    /\ UNCHANGED <<catObj, areaObj, engineVars>>

LinksNext ==
    \/ \E c \in CatRefs, a \in AreaRefs : CallCategoryAddArea(c, a)
    \/ \E c \in CatRefs, a \in AreaRefs : CallAreaAddCategory(a, c)
    \/ \E q \in PoolQuartiles : CallAddQuartile("c1", q)
    \/ \E j \in JournalRefs, c \in CatRefs : CallJournalAddCategory(j, c)
    \/ \E j \in JournalRefs, a \in AreaRefs : CallJournalAddArea(j, a)

SpecLinks == LinksInit /\ [][LinksNext]_vars

\* C1: after any sequence of addArea / addCategory calls, area A is in
\* C.getAreas() if and only if category C is in A.getCategories(), for every
\* Category C and Area A, those with an empty identifier included.
C1_BidirectionalLinks ==
    \A c \in CatRefs, a \in AreaRefs :
        a \in Range(getAreas(catObj[c])) <=> c \in Range(getCategories(areaObj[a]))

(***************************************************************************)
(* Tables (pandas DataFrames).  A table is its set of columns and its rows *)
(* in order; a row carries a value for each column of COLUMNS and the set  *)
(* nan of the columns whose cell is NaN (a column that pd.concat or        *)
(* DataFrame.from_records filled in).  The columns print_issn,             *)
(* electronic_issn and languages are copied into the Journal and read by   *)
(* no query; the model leaves them out.                                    *)
(***************************************************************************)

\* JournalQueryHandler.COLUMNS, _InMemoryJournalStore.COLUMNS
COLUMNS == {"id", "title", "publisher", "doaj_seal", "license", "apc", "identifiers"}

\* pd.DataFrame(columns=COLUMNS)
EmptyFrame == [cols |-> COLUMNS, rows |-> <<>>]

\* DataFrame.empty: no row or no column
frame_empty(frame) == frame.rows = <<>> \/ frame.cols = {}

\* row.to_dict().get(col): "none" when the table has no such column, "nan"
\* when the cell is NaN, "value" otherwise
cell_kind(frame, row, col) ==
    IF col \notin frame.cols THEN "none"
    ELSE IF col \in row.nan THEN "nan"
    ELSE "value"

\* the rows of a table that satisfy keep, index reset
select_rows(frame, keep(_)) == [frame EXCEPT !.rows = SelectSeq(@, keep)]

\* pd.concat([a, b], ignore_index=True): the union of the columns, NaN where
\* a table lacks a column
concat(a, b) ==
    LET cols == a.cols \cup b.cols
        fill(frame) == [i \in DOMAIN frame.rows |->
                          [frame.rows[i] EXCEPT !.nan = @ \cup (cols \ frame.cols)]]
    IN [cols |-> cols, rows |-> fill(a) \o fill(b)]

\* the value drop_duplicates compares: the id, or NaN (all NaN are equal)
dedup_key(row) == IF "id" \in row.nan THEN <<"nan", EmptyStr>> ELSE <<"value", row.id>>

\* DataFrame.drop_duplicates(subset="id", keep="last")
drop_duplicates_last(frame) ==
    [frame EXCEPT !.rows =
        LET r == frame.rows
            kept == {i \in DOMAIN r : \A k \in (i + 1)..Len(r) : dedup_key(r[k]) # dedup_key(r[i])}
            F[i \in 0..Len(r)] ==
                IF i = 0 THEN <<>>
                ELSE IF i \in kept THEN Append(F[i - 1], r[i]) ELSE F[i - 1]
        IN F[Len(r)]]

\* the merge with the wrong end kept: the occurrence of the handler
\* registered last
drop_duplicates_first_keeps_last(frame) == drop_duplicates_last(frame)

\* DataFrame.drop_duplicates(subset="id", keep="first")
drop_duplicates_first(frame) ==
    [frame EXCEPT !.rows =
        LET r == frame.rows
            kept == {i \in DOMAIN r : \A k \in 1..(i - 1) : dedup_key(r[k]) # dedup_key(r[i])}
            F[i \in 0..Len(r)] ==
                IF i = 0 THEN <<>>
                ELSE IF i \in kept THEN Append(F[i - 1], r[i]) ELSE F[i - 1]
        IN F[Len(r)]]

(***************************************************************************)
(* repositories.py: _InMemoryJournalStore.  A record handed to add_records *)
(* is a row together with the set keys of the dictionary keys it has.      *)
(***************************************************************************)

\* _InMemoryJournalStore.__init__; _index is a set of [key, id] pairs, one per key
EmptyStore == [frame |-> EmptyFrame, index |-> {}, repository |-> FALSE, fed |-> 0]

\* dict assignment self._index[key] = id
index_put(index, key, id) ==
    {e \in index : e.key # key} \cup {[key |-> key, id |-> id]}

\* pd.DataFrame.from_records(records)
from_records(records) ==
    LET cols == UNION {records[i].keys : i \in DOMAIN records}
    IN [cols |-> cols,
        rows |-> [i \in DOMAIN records |->
                    [id |-> records[i].id, title |-> records[i].title,
                     publisher |-> records[i].publisher,
                     doaj_seal |-> records[i].doaj_seal,
                     license |-> records[i].license, apc |-> records[i].apc,
                     identifiers |-> records[i].identifiers,
                     nan |-> cols \ records[i].keys]]]

\* the loop of add_records over one record's identifiers
RECURSIVE index_identifiers(_, _, _)
index_identifiers(index, identifiers, id) ==
    IF identifiers = <<>> THEN index
    ELSE LET identifier == Head(identifiers)
             normalised == normalise_identifier(identifier)
             next == IF normalised # EmptyStr
                     THEN index_put(index_put(index, normalised, id),
                                    normalise_identifier(remove_hyphens(identifier)), id)
                     ELSE index
         IN index_identifiers(next, Tail(identifiers), id)

\* the loop of add_records over the records
RECURSIVE index_records(_, _)
index_records(index, records) ==
    IF records = <<>> THEN index
    ELSE LET rec == Head(records)
             ids == IF "identifiers" \in rec.keys THEN rec.identifiers ELSE <<>>
         IN index_records(index_identifiers(index, ids, rec.id), Tail(records))

\* add_records raises: drop_duplicates without an id column, or rec["id"] of
\* a record that lists identifiers and has no id
add_records_raises(st, records) ==
    \/ /\ records # <<>>
       /\ ~frame_empty(st.frame)
       /\ "id" \notin concat(st.frame, from_records(records)).cols
    \/ \E i \in DOMAIN records :
          /\ "identifiers" \in records[i].keys
          /\ "id" \notin records[i].keys
          /\ \E k \in DOMAIN records[i].identifiers :
                normalise_identifier(records[i].identifiers[k]) # EmptyStr

\* _InMemoryJournalStore.add_records, for a call that does not raise
add_records(st, records) ==
    IF records = <<>> THEN st
    ELSE [frame |-> IF frame_empty(st.frame) THEN from_records(records)
                    ELSE drop_duplicates_last(concat(st.frame, from_records(records))),
          index |-> index_records(st.index, records),
          repository |-> st.repository, fed |-> st.fed]

\* the outcome of a call: the exception it raised ("none" when it returned)
\* and the table it returned
Returned(frame) == [raised |-> "none", frame |-> frame]

Raised(exception) == [raised |-> exception, frame |-> EmptyFrame]

\* dict.get(key) on the index: the ids stored under key (none or one)
index_get(index, key) == {e.id : e \in {x \in index : x.key = key}}

\* any(_normalise_identifier(identifier) == _normalise_identifier(i) for i in ids)
any_identifier_matches(identifier, ids) ==
    \E k \in DOMAIN ids : normalise_identifier(identifier) = normalise_identifier(ids[k])

\* _InMemoryJournalStore.all
store_all(st) == Returned(st.frame)

\* the tail of by_identifier: target is the set of ids the index gave (none or
\* one), hit the rows with that id, scan the rows listing the identifier
by_identifier_rows(st, target, hit, scan) ==
    IF target # {} /\ "id" \notin st.frame.cols THEN Raised("KeyError")
    ELSE IF target # {} /\ ~frame_empty(hit) THEN Returned(hit)
    ELSE IF "identifiers" \notin st.frame.cols THEN Raised("KeyError")
    ELSE IF \E i \in DOMAIN st.frame.rows : "identifiers" \in st.frame.rows[i].nan
         THEN Raised("TypeError")
    ELSE IF scan.rows # <<>> THEN Returned(scan)
    ELSE Returned(EmptyFrame)

\* self._index.get(normalised) or self._index.get(normalised.replace("-", ""))
index_lookup(first, second) == IF first # {} THEN first ELSE second

\* the rows of by_identifier's two selections
by_identifier_target(st, identifier, target) ==
    by_identifier_rows(st, target,
        select_rows(st.frame, LAMBDA row : "id" \notin row.nan /\ row.id \in target),
        select_rows(st.frame,
            LAMBDA row : any_identifier_matches(identifier, row.identifiers)))

\* _InMemoryJournalStore.by_identifier
by_identifier(st, identifier) ==
    IF identifier = EmptyStr THEN Returned(EmptyFrame)
    ELSE by_identifier_target(st, identifier,
             index_lookup(
                 index_get(st.index, normalise_identifier(identifier)) \ {EmptyStr},
                 index_get(st.index,
                     normalise_identifier(remove_hyphens(identifier))) \ {EmptyStr}))

\* a contiguous, case-insensitive occurrence of part in text
contains(text, part) ==
    \E i \in 0..(Len(text) - Len(part)) :
        lower(SubSeq(text, i + 1, i + Len(part))) = lower(part)

\* _InMemoryJournalStore.by_title
by_title(st, title_part) ==
    IF title_part = EmptyStr THEN Returned(st.frame)
    ELSE IF "title" \notin st.frame.cols THEN Raised("KeyError")
    ELSE Returned(select_rows(st.frame,
             LAMBDA row : "title" \notin row.nan /\ contains(row.title, title_part)))

\* _InMemoryJournalStore.by_publisher
by_publisher(st, publisher_part) ==
    IF publisher_part = EmptyStr THEN Returned(st.frame)
    ELSE IF "publisher" \notin st.frame.cols THEN Raised("KeyError")
    ELSE Returned(select_rows(st.frame,
             LAMBDA row : "publisher" \notin row.nan
                          /\ contains(row.publisher, publisher_part)))

\* _InMemoryJournalStore.by_license
by_license(st, licenses) ==
    IF normalised_set(licenses) = {} THEN Returned(st.frame)
    ELSE IF "license" \notin st.frame.cols THEN Raised("KeyError")
    ELSE Returned(select_rows(st.frame,
             LAMBDA row : /\ "license" \notin row.nan
                          /\ normalise_identifier(row.license) \in normalised_set(licenses)))

\* _InMemoryJournalStore.with_apc
with_apc(st) ==
    IF "apc" \notin st.frame.cols THEN Raised("KeyError")
    ELSE Returned(select_rows(st.frame, LAMBDA row : "apc" \notin row.nan /\ row.apc))

\* _InMemoryJournalStore.with_doaj_seal
with_doaj_seal(st) ==
    IF "doaj_seal" \notin st.frame.cols THEN Raised("KeyError")
    ELSE Returned(select_rows(st.frame,
             LAMBDA row : "doaj_seal" \notin row.nan /\ row.doaj_seal))

(***************************************************************************)
(* query_handlers.py: JournalQueryHandler.  handler is the handler's       *)
(* state: whether setDbPathOrUrl gave it a repository, and the store the   *)
(* repository reads.                                                       *)
(***************************************************************************)

\* JournalQueryHandler.getById, getAllJournals, getJournalsWithTitle, ...:
\* the empty table without a repository, the repository's answer otherwise
journal_handler_call(handler, method_name, arg) ==
    IF ~handler.repository THEN Returned(EmptyFrame)
    ELSE CASE method_name = "getById" -> by_identifier(handler, arg)
           [] method_name = "getAllJournals" -> store_all(handler)
           [] method_name = "getJournalsWithTitle" -> by_title(handler, arg)
           [] method_name = "getJournalsPublishedBy" -> by_publisher(handler, arg)
           [] method_name = "getJournalsWithLicense" -> by_license(handler, arg)
           [] method_name = "getJournalsWithAPC" -> with_apc(handler)
           [] method_name = "getJournalsWithDOAJSeal" -> with_doaj_seal(handler)

(***************************************************************************)
(* engine.py: BasicQueryEngine, the fan-out over the journal handlers      *)
(***************************************************************************)

\* the fan-out cut short: a handler with an empty answer ends the loop and
\* the answers of the handlers after it are lost
append_frame_until_empty(got, rest) ==
    IF got.raised # "none" THEN Raised(got.raised)
    ELSE IF frame_empty(got.frame) THEN [raised |-> "none", frame |-> [cols |-> {}, rows |-> <<>>]]
    ELSE IF rest.raised # "none" THEN rest
    ELSE IF rest.frame.rows = <<>> THEN Returned(got.frame)
    ELSE Returned(concat(got.frame, rest.frame))

\* frames.append(frame) for a non-empty frame, then pd.concat(frames): got is
\* one handler's answer, rest the outcome for the handlers after it
append_frame(got, rest) ==
    IF got.raised # "none" THEN Raised(got.raised)
    ELSE IF rest.raised # "none" THEN rest
    ELSE IF frame_empty(got.frame) THEN rest
    ELSE IF rest.frame.rows = <<>> THEN Returned(got.frame)
    ELSE Returned(concat(got.frame, rest.frame))

\* the loop of _collect_journal_frames: the non-empty tables of the handlers,
\* concatenated in registration order (an empty list gives a table without
\* columns, which the caller replaces)
RECURSIVE collect_frames(_, _, _, _)
collect_frames(handlers, stores, method_name, arg) ==
    IF handlers = <<>> THEN [raised |-> "none", frame |-> [cols |-> {}, rows |-> <<>>]]
    ELSE append_frame(journal_handler_call(stores[Head(handlers)], method_name, arg),
                      collect_frames(Tail(handlers), stores, method_name, arg))

\* the merge without its fallback: when no handler gave rows, a table
\* without columns
combine_frames_bare(got) ==
    IF got.raised # "none" THEN got
    ELSE IF got.frame.rows = <<>> THEN Returned([cols |-> {}, rows |-> <<>>])
    ELSE IF "id" \in got.frame.cols THEN Returned(drop_duplicates_first(got.frame))
    ELSE got

\* the end of _collect_journal_frames: the empty table when no handler gave
\* rows, otherwise the rows with the first of each id when there is an id column
combine_frames(got) ==
    IF got.raised # "none" THEN got
    ELSE IF got.frame.rows = <<>> THEN Returned(EmptyFrame)
    ELSE IF "id" \in got.frame.cols THEN Returned(drop_duplicates_first(got.frame))
    ELSE got

\* BasicQueryEngine._collect_journal_frames
collect_journal_frames(handlers, stores, method_name, arg) ==
    combine_frames(collect_frames(handlers, stores, method_name, arg))

(***************************************************************************)
(* repositories.py: SQLiteCategoryRepository.  A table is the set of its   *)
(* rows; journal_alias, whose row order decides export_all's alias map, is *)
(* the sequence of its rows in insertion order.  A NULL quartile is the    *)
(* empty string: load_json stores no empty quartile and export_all treats  *)
(* both alike.                                                             *)
(***************************************************************************)

\* a sequence listing the elements of a finite set once each: the order in
\* which the interpreter iterates a set (fixed, and left open by Python)
RECURSIVE SeqOf(_)
SeqOf(S) ==
    IF S = {} THEN <<>>
    ELSE LET x == CHOOSE x \in S : TRUE IN <<x>> \o SeqOf(S \ {x})

\* the tables of _initialise_schema, empty; repository tells whether the
\* category handler has been given a repository
EmptyDb ==
    [repository |-> TRUE, fed |-> 0, journal |-> {}, journal_alias |-> <<>>, category |-> {},
     area |-> {}, category_quartile |-> {}, category_area |-> {},
     journal_category |-> {}, journal_area |-> {}]

\* [str(i).strip() for i in items if str(i).strip()]
stripped_nonempty(items) ==
    LET s == [i \in DOMAIN items |-> strip(items[i])]
    IN SelectSeq(s, LAMBDA x : x # EmptyStr)

\* INSERT OR IGNORE INTO journal_alias, once per alias in the order given
RECURSIVE insert_aliases(_, _, _)
insert_aliases(table, aliases, canonical) ==
    IF aliases = <<>> THEN table
    ELSE LET alias == Head(aliases)
             next == IF \E i \in DOMAIN table : table[i].alias = alias
                     THEN table
                     ELSE Append(table, [alias |-> alias, journal_id |-> canonical])
         IN insert_aliases(next, Tail(aliases), canonical)

\* the aliases load_json derives from an entry: its identifiers and their
\* hyphen-free forms
entry_aliases(entry) ==
    LET identifiers == stripped_nonempty(entry.identifiers)
    IN Range(identifiers) \cup {remove_hyphens(identifiers[i]) : i \in DOMAIN identifiers}

\* SQLiteCategoryRepository.load_json for one entry of the payload;
\* alias_order is the order in which the set of aliases is iterated.  The
\* entry names at least one identifier (load_json draws a uuid otherwise).
load_json_entry(d, entry, alias_order) ==
    LET identifiers == stripped_nonempty(entry.identifiers)
        canonical == identifiers[1]
        areas == Range(stripped_nonempty(entry.areas))
        cats == {[id |-> strip(entry.categories[i].id),
                  quartile |-> strip(entry.categories[i].quartile)] :
                     i \in DOMAIN entry.categories}
        named == {c \in cats : c.id # EmptyStr}
    IN [d EXCEPT
          !.journal = @ \cup {canonical},
          !.journal_alias = insert_aliases(@, alias_order, canonical),
          !.area = @ \cup areas,
          !.category = @ \cup {c.id : c \in named},
          !.category_quartile =
              @ \cup {<<c.id, c.quartile>> : c \in {x \in named : x.quartile # EmptyStr}},
          !.category_area = @ \cup {<<c.id, a>> : c \in named, a \in areas},
          !.journal_category = @ \cup {<<canonical, c.id, c.quartile>> : c \in named},
          !.journal_area = @ \cup {<<canonical, a>> : a \in areas}]

\* the loop of export_all over the rows of journal_alias: a later row
\* replaces the mapping of an earlier row with the same normalised alias
export_alias_map(table) ==
    LET keys == {normalise_identifier(table[i].alias) : i \in DOMAIN table}
        lastrow(key) == CHOOSE i \in DOMAIN table :
                           /\ normalise_identifier(table[i].alias) = key
                           /\ \A k \in (i + 1)..Len(table) :
                                  normalise_identifier(table[k].alias) # key
    IN [key \in keys |-> table[lastrow(key)].journal_id]

\* SQLiteCategoryRepository.export_all
export_all(d) ==
    LET quartile_rows == {r \in d.category_quartile : r[2] # EmptyStr}
        cids == {r[1] : r \in quartile_rows} \cup {r[1] : r \in d.category_area}
        aids == {r[2] : r \in d.category_area}
        jcs == {r[1] : r \in d.journal_category}
        jas == {r[1] : r \in d.journal_area}
    IN [categories |->
            [cid \in cids |->
                [quartiles |-> {r[2] : r \in {x \in quartile_rows : x[1] = cid}},
                 areas |-> {r[2] : r \in {x \in d.category_area : x[1] = cid}}]],
        areas |->
            [aid \in aids |->
                [categories |-> {r[1] : r \in {x \in d.category_area : x[2] = aid}}]],
        journal_categories |->
            [jid \in jcs |->
                [cid \in {r[2] : r \in {x \in d.journal_category : x[1] = jid}} |->
                    {r[3] : r \in {x \in d.journal_category :
                                      x[1] = jid /\ x[2] = cid /\ x[3] # EmptyStr}}]],
        journal_areas |->
            [jid \in jas |-> {r[2] : r \in {x \in d.journal_area : x[1] = jid}}],
        journal_alias |-> export_alias_map(d.journal_alias)]

(***************************************************************************)
(* engine.py: the merge of the taxonomy exports and the taxonomy objects   *)
(***************************************************************************)

\* the initial value of combined in _collect_category_exports
EmptyExport ==
    [categories |-> <<>>, areas |-> <<>>, journal_categories |-> <<>>,
     journal_areas |-> <<>>, journal_alias |-> <<>>]

\* dict.get(key, default)
dict_get(dict, key, default) == IF key \in DOMAIN dict THEN dict[key] ELSE default

\* a merge in which the record of a later export replaces the record the
\* earlier exports built for the same key
merge_export_replace(combined, export) ==
    [categories |-> export.categories @@ combined.categories,
     areas |-> export.areas @@ combined.areas,
     journal_categories |-> export.journal_categories @@ combined.journal_categories,
     journal_areas |-> export.journal_areas @@ combined.journal_areas,
     journal_alias |-> combined.journal_alias @@ export.journal_alias]

\* the body of the loop of _collect_category_exports: one export merged
\* into combined
merge_export(combined, export) ==
    [categories |->
        [cid \in DOMAIN combined.categories \cup DOMAIN export.categories |->
            LET old == dict_get(combined.categories, cid, [quartiles |-> {}, areas |-> {}])
                new == dict_get(export.categories, cid, [quartiles |-> {}, areas |-> {}])
            IN [quartiles |-> old.quartiles \cup new.quartiles,
                areas |-> old.areas \cup new.areas]],
     areas |->
        [aid \in DOMAIN combined.areas \cup DOMAIN export.areas |->
            [categories |->
                dict_get(combined.areas, aid, [categories |-> {}]).categories
                \cup dict_get(export.areas, aid, [categories |-> {}]).categories]],
     journal_categories |->
        [jid \in DOMAIN combined.journal_categories \cup DOMAIN export.journal_categories |->
            LET old == dict_get(combined.journal_categories, jid, <<>>)
                new == dict_get(export.journal_categories, jid, <<>>)
            IN [cid \in DOMAIN old \cup DOMAIN new |->
                   dict_get(old, cid, {}) \cup dict_get(new, cid, {})]],
     journal_areas |->
        [jid \in DOMAIN combined.journal_areas \cup DOMAIN export.journal_areas |->
            dict_get(combined.journal_areas, jid, {})
            \cup dict_get(export.journal_areas, jid, {})],
     journal_alias |->
        [key \in DOMAIN combined.journal_alias \cup DOMAIN export.journal_alias |->
            IF key \in DOMAIN combined.journal_alias
            THEN combined.journal_alias[key]
            ELSE export.journal_alias[key]]]

\* BasicQueryEngine._collect_category_exports: the handlers in registration
\* order, a handler without a repository skipped
RECURSIVE collect_exports(_, _, _)
collect_exports(combined, handlers, dbs) ==
    IF handlers = <<>> THEN combined
    ELSE LET d == dbs[Head(handlers)]
             next == IF d.repository THEN merge_export(combined, export_all(d))
                     ELSE combined
         IN collect_exports(next, Tail(handlers), dbs)

collect_category_exports(handlers, dbs) == collect_exports(EmptyExport, handlers, dbs)

\* the loop of _build_taxonomy over one category's quartiles
RECURSIVE add_quartiles(_, _, _)
add_quartiles(cats, c, quartiles) ==
    IF quartiles = <<>> THEN cats
    ELSE add_quartiles(addQuartile(cats, c, Head(quartiles)), c, Tail(quartiles))

\* the first loop of _build_taxonomy: category_map
RECURSIVE build_categories(_, _, _)
build_categories(cats, cids, exports) ==
    IF cids = <<>> THEN cats
    ELSE LET cid == Head(cids)
             made == IF cid \in DOMAIN cats THEN cats ELSE cats @@ (cid :> Category(cid))
         IN build_categories(
                add_quartiles(made, cid, SeqOf(exports.categories[cid].quartiles)),
                Tail(cids), exports)

\* the inner loop cut short: only the first category of the area is linked
link_categories_first(H, aid, cids) ==
    IF cids = <<>> THEN H
    ELSE Category_addArea(IF Head(cids) \in DOMAIN H.cats THEN H
                          ELSE [H EXCEPT !.cats = @ @@ (Head(cids) :> Category(Head(cids)))],
                          Head(cids), aid)

\* the inner loop of _build_taxonomy over one area's categories
RECURSIVE link_categories(_, _, _)
link_categories(H, aid, cids) ==
    IF cids = <<>> THEN H
    ELSE LET cid == Head(cids)
             made == IF cid \in DOMAIN H.cats THEN H
                     ELSE [H EXCEPT !.cats = @ @@ (cid :> Category(cid))]
         IN link_categories(Category_addArea(made, cid, aid), aid, Tail(cids))

\* the second loop of _build_taxonomy: area_map
RECURSIVE build_areas(_, _, _)
build_areas(H, aids, exports) ==
    IF aids = <<>> THEN H
    ELSE LET aid == Head(aids)
             made == IF aid \in DOMAIN H.areas THEN H
                     ELSE [H EXCEPT !.areas = @ @@ (aid :> Area(aid))]
         IN build_areas(link_categories(made, aid, SeqOf(exports.areas[aid].categories)),
                        Tail(aids), exports)

\* BasicQueryEngine._build_taxonomy: category_map and area_map, keyed by the
\* export's ids
build_taxonomy(exports) ==
    build_areas([cats |-> build_categories(<<>>, SeqOf(DOMAIN exports.categories), exports),
                 areas |-> <<>>],
                SeqOf(DOMAIN exports.areas), exports)

(***************************************************************************)
(* engine.py: hydration of the merged journal rows                         *)
(***************************************************************************)

\* alias_map.get(...) of _build_journal_objects, both attempts: the
\* canonical ids found (none or one); an empty canonical id counts as absent
resolve_alias(alias_map, identifier) ==
    LET first == dict_get(alias_map, normalise_identifier(identifier), EmptyStr)
        second == dict_get(alias_map,
                      normalise_identifier(remove_hyphens(identifier)), EmptyStr)
    IN IF first # EmptyStr THEN {first}
       ELSE IF second # EmptyStr THEN {second}
       ELSE {}

\* for category_id in journal_categories.get(canonical, {}).keys(): ...
RECURSIVE attach_categories(_, _, _)
attach_categories(journal, cids, H) ==
    IF cids = <<>> THEN journal
    ELSE LET cid == Head(cids)
             next == IF cid \in DOMAIN H.cats
                     THEN Journal_addCategory(journal, H.cats[cid].id, cid)
                     ELSE journal
         IN attach_categories(next, Tail(cids), H)

\* for area_id in journal_areas.get(canonical, set()): ...
RECURSIVE attach_areas(_, _, _)
attach_areas(journal, aids, H) ==
    IF aids = <<>> THEN journal
    ELSE LET aid == Head(aids)
             next == IF aid \in DOMAIN H.areas
                     THEN Journal_addArea(journal, H.areas[aid].id, aid)
                     ELSE journal
         IN attach_areas(next, Tail(aids), H)

\* what the loop over a row's identifiers does with one canonical id
attach_canonical(journal, canonical, H, exports) ==
    attach_areas(
        attach_categories(journal,
            SeqOf(DOMAIN dict_get(exports.journal_categories, canonical, <<>>)), H),
        SeqOf(dict_get(exports.journal_areas, canonical, {})), H)

\* the loop of _build_journal_objects over a row's identifiers
RECURSIVE resolve_identifiers(_, _, _, _)
resolve_identifiers(journal, identifiers, H, exports) ==
    IF identifiers = <<>> THEN journal
    ELSE LET canonical == resolve_alias(exports.journal_alias, Head(identifiers))
             next == IF canonical = {} THEN journal
                     ELSE attach_canonical(journal, CHOOSE c \in canonical : TRUE,
                                           H, exports)
         IN resolve_identifiers(next, Tail(identifiers), H, exports)

\* the exception the construction of a row's Journal raises: NaN.strip() for
\* a NaN text field, iteration over a NaN identifiers cell
row_raises(frame, row) ==
    IF \E col \in {"id", "title", "publisher", "license"} :
           cell_kind(frame, row, col) = "nan"
    THEN "AttributeError"
    ELSE IF cell_kind(frame, row, "identifiers") = "nan" THEN "TypeError"
    ELSE "none"

\* record.get(col) for a text column handed to Journal.__init__
text_cell(frame, row, col, value) ==
    IF cell_kind(frame, row, col) = "value" THEN value ELSE EmptyStr

\* bool(record.get(col))
bool_cell(frame, row, col, value) ==
    CASE cell_kind(frame, row, col) = "none" -> FALSE
      [] cell_kind(frame, row, col) = "nan" -> TRUE
      [] OTHER -> value

\* the body of the loop of _build_journal_objects: one row's Journal
hydrate_row(frame, row, H, exports) ==
    LET journal == Journal(text_cell(frame, row, "id", row.id),
                           text_cell(frame, row, "title", row.title),
                           text_cell(frame, row, "publisher", row.publisher),
                           text_cell(frame, row, "license", row.license),
                           bool_cell(frame, row, "apc", row.apc),
                           bool_cell(frame, row, "doaj_seal", row.doaj_seal))
        identifiers == IF cell_kind(frame, row, "identifiers") = "value"
                       THEN SelectSeq(row.identifiers, LAMBDA x : x # EmptyStr)
                       ELSE <<>>
    IN resolve_identifiers(journal, identifiers, H, exports)

\* the outcome of a query: the exception raised ("none" when it returned)
\* and the list returned, with the heap of the Category and Area objects
\* the listed entities refer to
EmptyHeap == [cats |-> <<>>, areas |-> <<>>]

Result(value, H) == [raised |-> "none", value |-> value, heap |-> H]

Failure(exception) == [raised |-> exception, value |-> <<>>, heap |-> EmptyHeap]

\* a loop that leaves out the rows none of whose identifiers has an alias
hydrate_rows_matched_only(frame, H, exports, bad) ==
    IF bad # {}
    THEN Failure(row_raises(frame, frame.rows[CHOOSE i \in bad : \A k \in bad : i <= k]))
    ELSE LET matched == SelectSeq(frame.rows,
                            LAMBDA row : \E n \in DOMAIN row.identifiers :
                                resolve_alias(exports.journal_alias, row.identifiers[n]) # {})
         IN Result([i \in DOMAIN matched |-> hydrate_row(frame, matched[i], H, exports)], H)

\* the loop of _build_journal_objects: the first row whose construction
\* raises ends the call
hydrate_rows(frame, H, exports, bad) ==
    IF bad # {}
    THEN Failure(row_raises(frame, frame.rows[CHOOSE i \in bad : \A k \in bad : i <= k]))
    ELSE Result([i \in DOMAIN frame.rows |-> hydrate_row(frame, frame.rows[i], H, exports)],
                H)

\* BasicQueryEngine._build_journal_objects
build_journal_objects(frame, exports) ==
    IF frame_empty(frame) THEN Result(<<>>, EmptyHeap)
    ELSE hydrate_rows(frame, build_taxonomy(exports), exports,
             {i \in DOMAIN frame.rows : row_raises(frame, frame.rows[i]) # "none"})

(***************************************************************************)
(* engine.py: the public operations.  E is the engine with the handlers'   *)
(* stores: [journalQuery, categoryQuery, store, db].                       *)
(***************************************************************************)

\* the hydration of the merged table got, unless the merge raised
hydrate(got, exports) ==
    IF got.raised # "none" THEN Failure(got.raised)
    ELSE build_journal_objects(got.frame, exports)

\* merge, then hydrate: the body shared by the journal-returning operations
\* of BasicQueryEngine
journal_query(E, method_name, arg) ==
    hydrate(collect_journal_frames(E.journalQuery, E.store, method_name, arg),
            collect_category_exports(E.categoryQuery, E.db))

\* the taxonomy of the registered category handlers
taxonomy(E) == build_taxonomy(collect_category_exports(E.categoryQuery, E.db))

\* BasicQueryEngine._find_category_by_identifier: the categories with the
\* normalised id, in the order of category_map
find_category_by_identifier(H, identifier) ==
    SelectSeq(SeqOf(DOMAIN H.cats),
        LAMBDA cid : normalise_identifier(H.cats[cid].id) = normalise_identifier(identifier))

\* BasicQueryEngine._find_area_by_identifier
find_area_by_identifier(H, identifier) ==
    SelectSeq(SeqOf(DOMAIN H.areas),
        LAMBDA aid : normalise_identifier(H.areas[aid].id) = normalise_identifier(identifier))

\* the search with the two tests swapped: the area before the category
taxonomy_entity_area_first(H, cats, areas) ==
    IF areas # <<>>
    THEN [raised |-> "none", value |-> <<[kind |-> "Area", entity |-> H.areas[areas[1]]]>>,
          heap |-> H]
    ELSE IF cats # <<>>
    THEN [raised |-> "none", value |-> <<[kind |-> "Category", entity |-> H.cats[cats[1]]]>>,
          heap |-> H]
    ELSE [raised |-> "none", value |-> <<>>, heap |-> [cats |-> <<>>, areas |-> <<>>]]

\* the second half of getEntityById: the first category, else the first area
\* with the identifier, else None
taxonomy_entity(H, cats, areas) ==
    IF cats # <<>>
    THEN Result(<<[kind |-> "Category", entity |-> H.cats[cats[1]]]>>, H)
    ELSE IF areas # <<>>
    THEN Result(<<[kind |-> "Area", entity |-> H.areas[areas[1]]]>>, H)
    ELSE Result(<<>>, EmptyHeap)

\* the search of getEntityById in the taxonomy H
find_taxonomy_entity(H, identifier) ==
    taxonomy_entity(H, find_category_by_identifier(H, identifier),
                    find_area_by_identifier(H, identifier))

\* the first half of getEntityById: the first journal found, if any
first_entity(journals, E, identifier) ==
    IF journals.raised # "none" THEN journals
    ELSE IF journals.value # <<>>
    THEN Result(<<[kind |-> "Journal", entity |-> journals.value[1]]>>, journals.heap)
    ELSE find_taxonomy_entity(taxonomy(E), identifier)

\* BasicQueryEngine.getEntityById: a list with the entity, empty for None
getEntityById(E, identifier) ==
    first_entity(journal_query(E, "getById", identifier), E, identifier)

getAllJournals(E) == journal_query(E, "getAllJournals", EmptyStr)

getJournalsWithTitle(E, title_part) == journal_query(E, "getJournalsWithTitle", title_part)

getJournalsPublishedBy(E, publisher_part) ==
    journal_query(E, "getJournalsPublishedBy", publisher_part)

getJournalsWithLicense(E, licenses) == journal_query(E, "getJournalsWithLicense", licenses)

getJournalsWithAPC(E) == journal_query(E, "getJournalsWithAPC", EmptyStr)

getJournalsWithDOAJSeal(E) == journal_query(E, "getJournalsWithDOAJSeal", EmptyStr)

\* list(category_map.values())
category_list(H, cids) == Result([i \in DOMAIN cids |-> H.cats[cids[i]]], H)

\* list(area_map.values())
area_list(H, aids) == Result([i \in DOMAIN aids |-> H.areas[aids[i]]], H)

\* the categories of the taxonomy H, in the order of category_map
categories_of(H) == category_list(H, SeqOf(DOMAIN H.cats))

\* the areas of the taxonomy H, in the order of area_map
areas_of(H) == area_list(H, SeqOf(DOMAIN H.areas))

\* BasicQueryEngine.getAllCategories
getAllCategories(E) == categories_of(taxonomy(E))

\* BasicQueryEngine.getAllAreas
getAllAreas(E) == areas_of(taxonomy(E))

\* {_normalise_identifier(q) for q in category.getQuartiles()}
quartile_norm(cat) == {normalise_identifier(q) : q \in Range(getQuartiles(cat))}

\* {_normalise_identifier(area.getId()) for area in obj.getAreas()}
area_norm(obj, H) == {normalise_identifier(H.areas[a].id) : a \in Range(getAreas(obj))}

\* {_normalise_identifier(category.getId()) for category in obj.getCategories()}
category_norm(obj, H) ==
    {normalise_identifier(H.cats[c].id) : c \in Range(getCategories(obj))}

\* the filter without the test for an empty target
with_quartile_strict(all, target) ==
    [raised |-> "none",
     value |-> SelectSeq(all.value, LAMBDA cat : quartile_norm(cat) \cap target # {}),
     heap |-> all.heap]

\* the filter of getCategoriesWithQuartile over the categories all
with_quartile(all, target) ==
    Result(SelectSeq(all.value,
               LAMBDA cat : target = {} \/ quartile_norm(cat) \cap target # {}),
           all.heap)

\* BasicQueryEngine.getCategoriesWithQuartile
getCategoriesWithQuartile(E, quartiles) ==
    with_quartile(getAllCategories(E), normalised_set(quartiles))

\* the filter of getCategoriesAssignedToAreas over the categories all
assigned_to_areas(all, target) ==
    Result(SelectSeq(all.value,
               LAMBDA cat : target = {} \/ area_norm(cat, all.heap) \cap target # {}),
           all.heap)

\* BasicQueryEngine.getCategoriesAssignedToAreas
getCategoriesAssignedToAreas(E, areas) ==
    assigned_to_areas(getAllCategories(E), normalised_set(areas))

\* the filter of getAreasAssignedToCategories over the areas all
assigned_to_categories(all, target) ==
    Result(SelectSeq(all.value,
               LAMBDA area : target = {} \/ category_norm(area, all.heap) \cap target # {}),
           all.heap)

\* BasicQueryEngine.getAreasAssignedToCategories
getAreasAssignedToCategories(E, categories) ==
    assigned_to_categories(getAllAreas(E), normalised_set(categories))

\* FullQueryEngine._journal_dataframe
journal_dataframe(E) ==
    collect_journal_frames(E.journalQuery, E.store, "getAllJournals", EmptyStr)

\* the license pre-filter without normalisation: a row is kept when its
\* license is literally one of the requested texts
select_journals_by_license_literal(df, licenses) ==
    IF frame_empty(df) \/ normalised_set(licenses) = {} THEN Returned(df)
    ELSE Returned(select_rows(df, LAMBDA row : row.license \in Range(licenses)))

\* FullQueryEngine._select_journals_by_license
select_journals_by_license(df, licenses) ==
    IF frame_empty(df) \/ normalised_set(licenses) = {} THEN Returned(df)
    ELSE IF "license" \notin df.cols THEN Raised("KeyError")
    ELSE Returned(select_rows(df,
             LAMBDA row : /\ "license" \notin row.nan
                          /\ normalise_identifier(row.license) \in normalised_set(licenses)))

\* cat_match and quartile_match of one category
category_passes(category, requested_categories, requested_quartiles) ==
    /\ \/ requested_categories = {}
       \/ normalise_identifier(category.id) \in requested_categories
    /\ \/ requested_quartiles = {}
       \/ quartile_norm(category) \cap requested_quartiles # {}

\* the two tests taken apart: the category test passed by one category of
\* the journal and the quartile test by another
category_match_apart(cids, H, requested_categories, requested_quartiles) ==
    /\ \E i \in DOMAIN cids :
           \/ requested_categories = {}
           \/ normalise_identifier(H.cats[cids[i]].id) \in requested_categories
    /\ \E i \in DOMAIN cids :
           \/ requested_quartiles = {}
           \/ quartile_norm(H.cats[cids[i]]) \cap requested_quartiles # {}

\* a loop that also lets a journal without categories pass
category_match_or_none(cids, H, requested_categories, requested_quartiles) ==
    \/ cids = <<>>
    \/ \E i \in DOMAIN cids :
           category_passes(H.cats[cids[i]], requested_categories, requested_quartiles)

\* the loop over journal.getCategories() of the two category/quartile
\* queries: it stops at the first category that passes both tests
RECURSIVE category_match(_, _, _, _)
category_match(cids, H, requested_categories, requested_quartiles) ==
    IF cids = <<>> THEN FALSE
    ELSE IF category_passes(H.cats[Head(cids)], requested_categories, requested_quartiles)
    THEN TRUE
    ELSE category_match(Tail(cids), H, requested_categories, requested_quartiles)

\* the journals of a Full-tier query that pass its tests; a failure of the
\* hydration is passed on
select_journals(journals, keep(_, _)) ==
    IF journals.raised # "none" THEN journals
    ELSE Result(SelectSeq(journals.value, LAMBDA journal : keep(journal, journals.heap)),
                journals.heap)

\* the Full-tier queries' hydration of the filtered table df
hydrate_selected(df, exports, keep(_, _)) ==
    IF df.raised # "none" THEN Failure(df.raised)
    ELSE select_journals(build_journal_objects(df.frame, exports), keep)

\* the loop of getJournalsInCategoriesWithQuartile over the hydrated journals
in_categories_with_quartile(df, exports, requested_categories, requested_quartiles) ==
    hydrate_selected(df, exports,
        LAMBDA journal, H : category_match(getCategories(journal), H,
                                requested_categories, requested_quartiles))

\* FullQueryEngine.getJournalsInCategoriesWithQuartile
getJournalsInCategoriesWithQuartile(E, categories, quartiles) ==
    in_categories_with_quartile(journal_dataframe(E),
        collect_category_exports(E.categoryQuery, E.db),
        normalised_set(categories), normalised_set(quartiles))

\* a pre-filter of the merged table all, unless the merge raised
prefilter(all, filter(_)) ==
    IF all.raised # "none" THEN all ELSE filter(all.frame)

\* the loop of getJournalsInAreasWithLicense over the hydrated journals
in_areas(df, exports, requested_areas) ==
    hydrate_selected(df, exports,
        LAMBDA journal, H : \/ requested_areas = {}
                            \/ area_norm(journal, H) \cap requested_areas # {})

\* FullQueryEngine.getJournalsInAreasWithLicense
getJournalsInAreasWithLicense(E, areas, licenses) ==
    in_areas(prefilter(journal_dataframe(E),
                 LAMBDA frame : select_journals_by_license(frame, licenses)),
             collect_category_exports(E.categoryQuery, E.db),
             normalised_set(areas))

\* the diamond query without its pre-filter: every row is kept
select_apc_any(df) == Returned(df)

\* df.loc[df["apc"] == False] of the diamond query
select_apc_false(df) ==
    IF "apc" \notin df.cols THEN Raised("KeyError")
    ELSE Returned(select_rows(df, LAMBDA row : "apc" \notin row.nan /\ ~row.apc))

\* the loop of the diamond query without its test of the areas
in_categories_whatever_areas(df, exports, areas, categories, quartiles) ==
    in_categories_with_quartile(df, exports, categories, quartiles)

\* the loop of the diamond query over the hydrated journals
in_areas_and_categories(df, exports, areas, categories, quartiles) ==
    hydrate_selected(df, exports,
        LAMBDA journal, H :
            /\ areas = {} \/ area_norm(journal, H) \cap areas # {}
            /\ category_match(getCategories(journal), H, categories, quartiles))

\* FullQueryEngine.getDiamondJournalsInAreasAndCategoriesWithQuartile
getDiamondJournalsInAreasAndCategoriesWithQuartile(E, areas, categories, quartiles) ==
    in_areas_and_categories(
        prefilter(journal_dataframe(E), select_apc_false),
        collect_category_exports(E.categoryQuery, E.db),
        normalised_set(areas), normalised_set(categories), normalised_set(quartiles))

(***************************************************************************)
(* The data of the specification Spec.  Two journal handlers and two       *)
(* category handlers exist.  The store of h2 and the repository of k2 were *)
(* loaded before the engine was created; the store of h1 is fed the        *)
(* batches of its CSV files and the repository of k1 the entries of its    *)
(* JSON payload while the engine runs.  The texts differ in case, hyphens  *)
(* and blanks, so that matching has to normalise.                          *)
(***************************************************************************)

s12h == <<"1", "-", "2">>
s12b == <<"1", " ", "2">>
s34h == <<"3", "-", "4">>
s5 == <<"5">>
s7 == <<"7">>
sA3 == <<"A", "3">>
sC3 == <<"C", "3">>
sCCBY == <<"C", "C", " ", "B", "Y">>
sccby == <<"c", "c", "-", "b", "y">>
sPD == <<"P", "D">>

JHandlers == {"h1", "h2"}

CHandlers == {"k1", "k2"}

\* the number of batches a journal store is fed at most
MaxBatches == 1

\* the number of payload entries a category repository is fed at most
MaxEntries == 2

\* the characters of the texts in the order of their code points
CodeOrder ==
    <<" ", "-", "0", "1", "2", "3", "4", "5", "6", "7", "8", "9">> \o UpperCase \o LowerCase

\* ord(ch), up to the gaps between the characters
Ord(ch) == CHOOSE i \in DOMAIN CodeOrder : CodeOrder[i] = ch

\* a < b for two str values
RECURSIVE str_less(_, _)
str_less(a, b) ==
    IF b = <<>> THEN FALSE
    ELSE IF a = <<>> THEN TRUE
    ELSE IF Head(a) # Head(b) THEN Ord(Head(a)) < Ord(Head(b))
    ELSE str_less(Tail(a), Tail(b))

\* tuple(sorted(S)) for a set of str values
RECURSIVE sorted(_)
sorted(S) ==
    IF S = {} THEN <<>>
    ELSE LET least == CHOOSE x \in S : \A y \in S \ {x} : str_less(x, y)
         IN <<least>> \o sorted(S \ {least})

\* the first of the texts that is not empty (a or b or c)
first_nonempty(a, b, c) == IF a # EmptyStr THEN a ELSE IF b # EmptyStr THEN b ELSE c

\* the cells of a CSV row that load_csv reads
CsvRow(title, issn_print, issn_e, publisher, seal, license, apc) ==
    [title |-> title, issn_print |-> issn_print, issn_e |-> issn_e,
     publisher |-> publisher, seal |-> seal, license |-> license, apc |-> apc]

sYes == <<"Y", "e", "s">>
sNo == <<"N", "o">>

\* the record load_csv builds from a CSV row with a title: every key of
\* COLUMNS present, the id among the sorted identifiers
load_csv_record(row) ==
    [id |-> strip(first_nonempty(strip(row.issn_e), strip(row.issn_print),
                                 strip(row.title))),
     title |-> strip(row.title),
     publisher |-> strip(row.publisher),
     doaj_seal |-> lower(strip(row.seal)) = <<"y", "e", "s">>,
     license |-> strip(row.license),
     apc |-> lower(strip(row.apc)) = <<"y", "e", "s">>,
     identifiers |-> sorted({strip(row.issn_e), strip(row.issn_print), strip(row.title)}
                            \ {EmptyStr}),
     keys |-> COLUMNS]

R1 == load_csv_record(CsvRow(<<"A", "l">>, s34h, s12h, <<"P", "x">>, sYes, sCCBY, sNo))
R2 == load_csv_record(CsvRow(<<"B", "e">>, EmptyStr, s34h, <<"P", "y">>, sNo, sccby, sYes))
R1b == load_csv_record(CsvRow(<<"A", "L", "T">>, EmptyStr, s12h, <<"P", "y">>, sNo, sPD,
                              <<" ", "Y", "E", "S">>))
R3 == load_csv_record(CsvRow(<<"G", "a">>, s5, EmptyStr, <<"P", "x">>, sNo, sCCBY, sNo))
R4 == load_csv_record(CsvRow(<<"D", "e">>, EmptyStr, s7, <<"P", "z">>, sYes, sPD, EmptyStr))

\* the batches handler h hands to add_records, in order
Batches(h) ==
    CASE h = "h1" -> <<<<R1, R2>>, <<R4>>>>
      [] h = "h2" -> <<<<R1b, R3>>>>

CatEntry(id, quartile) == [id |-> id, quartile |-> quartile]

Entry(identifiers, categories, areas) ==
    [identifiers |-> identifiers, categories |-> categories, areas |-> areas]

E1 == Entry(<<s12h>>, <<CatEntry(sC1, sQ1), CatEntry(sC2, sQ2)>>, <<sA1>>)
E2 == Entry(<<s34h>>, <<CatEntry(sC2, sQ1)>>, <<sA1, sA2>>)
E3 == Entry(<<s5>>, <<CatEntry(sC3, EmptyStr)>>, <<>>)
E4 == Entry(<<s12b>>, <<CatEntry(sC1, sQ2)>>, <<sA2>>)
E5 == Entry(<<s7>>, <<>>, <<sA3>>)

\* the entries handler k hands to load_json, in order
Entries(k) ==
    CASE k = "k1" -> <<E1, E2, E5>>
      [] k = "k2" -> <<E3, E4>>

\* what was loaded before the engine was created
Preloaded(handler) ==
    CASE handler = "h1" -> 0
      [] handler = "h2" -> 1
      [] handler = "k1" -> 0
      [] handler = "k2" -> 2

\* the arguments of the queries
ArgCategories == {<<>>, <<<<"c", "-", "1">>>>}
ArgQuartiles == {<<>>, <<<<" ", "q", "2">>>>}
ArgAreas == {<<>>, <<<<"a", "1">>>>}
ArgLicenses == {<<>>, <<<<"c", "c", "b", "y">>>>}
ArgIds == {s12b, <<"c", "1">>, sA2, <<"z">>}
ArgParts == {<<"a", "l">>}
ArgDiamond ==
    {<<(<<>>), (<<>>), (<<>>)>>,
     <<(<<<<"a", "1">>>>), (<<<<"c", "-", "1">>>>), (<<sQ1>>)>>,
     <<(<<>>), (<<<<"c", "-", "1">>>>), (<<<<" ", "q", "2">>>>)>>,
     <<(<<<<"a", "1">>>>), (<<>>), (<<>>)>>}

\* the engine as the operations read it
Engine ==
    [journalQuery |-> journalQuery, categoryQuery |-> categoryQuery,
     store |-> store, db |-> db]

\* the record of the latest call
Call(op, args, result) ==
    [op |-> op, args |-> args, raised |-> result.raised, value |-> result.value,
     heap |-> result.heap]

objVars == <<catObj, areaObj, journalObj>>

\* JournalUploadHandler.pushDataToDb -> SparqlJournalRepository.load_csv ->
\* _InMemoryJournalStore.add_records, with the handler's next batch
feed_store(st, h) == [add_records(st, Batches(h)[st.fed + 1]) EXCEPT !.fed = @ + 1]

\* CategoryUploadHandler.pushDataToDb -> SQLiteCategoryRepository.load_json,
\* with a payload of the handler's next entry.  The aliases of one entry all
\* map to the entry's journal, so their insertion order changes no export.
feed_db(d, k) ==
    LET entry == Entries(k)[d.fed + 1]
    IN [load_json_entry(d, entry, SeqOf(entry_aliases(entry))) EXCEPT !.fed = @ + 1]

\* the store of h after its first n batches, the repository of k after its
\* first n entries
RECURSIVE fed_store(_, _, _)
fed_store(st, h, n) == IF n = 0 THEN st ELSE fed_store(feed_store(st, h), h, n - 1)

RECURSIVE fed_db(_, _, _)
fed_db(d, k, n) == IF n = 0 THEN d ELSE fed_db(feed_db(d, k), k, n - 1)

\* BasicQueryEngine.__init__, with the handlers constructed and configured
Init ==
    /\ catObj = <<>>
    /\ areaObj = <<>>
    /\ journalObj = <<>>
    /\ journalQuery = <<>>
    /\ categoryQuery = <<>>
    /\ store = [h \in JHandlers |->
                   fed_store([EmptyStore EXCEPT !.repository = TRUE], h, Preloaded(h))]
    /\ db = [k \in CHandlers |-> fed_db(EmptyDb, k, Preloaded(k))]
    /\ last = Idle

(***************************************************************************)
(* The operations                                                          *)
(***************************************************************************)

\* an addJournalHandler that appends every non-null handler, present or not
addJournalHandler_again(handler) ==
    LET added == handler # "None"
    IN /\ journalQuery' = IF added THEN Append(journalQuery, handler) ELSE journalQuery
       /\ last' = Call("addJournalHandler", <<handler>>, Result(<<added>>, EmptyHeap))
       /\ UNCHANGED <<categoryQuery, store, db, objVars>>

\* a cleanJournalHandlers that clears both collections
cleanJournalHandlers_both ==
    /\ journalQuery' = <<>>
    /\ categoryQuery' = <<>>
    /\ last' = Call("cleanJournalHandlers", <<>>, Result(<<TRUE>>, EmptyHeap))
    /\ UNCHANGED <<store, db, objVars>>

\* BasicQueryEngine.addJournalHandler; handler "None" is the null handler
addJournalHandler(handler) ==
    LET added == handler # "None" /\ handler \notin Range(journalQuery)
    IN /\ journalQuery' = IF added THEN Append(journalQuery, handler) ELSE journalQuery
       /\ last' = Call("addJournalHandler", <<handler>>, Result(<<added>>, EmptyHeap))
       /\ UNCHANGED <<categoryQuery, store, db, objVars>>

\* BasicQueryEngine.addCategoryHandler
addCategoryHandler(handler) ==
    LET added == handler # "None" /\ handler \notin Range(categoryQuery)
    IN /\ categoryQuery' = IF added THEN Append(categoryQuery, handler) ELSE categoryQuery
       /\ last' = Call("addCategoryHandler", <<handler>>, Result(<<added>>, EmptyHeap))
       /\ UNCHANGED <<journalQuery, store, db, objVars>>

\* BasicQueryEngine.cleanJournalHandlers
cleanJournalHandlers ==
    /\ journalQuery' = <<>>
    /\ last' = Call("cleanJournalHandlers", <<>>, Result(<<TRUE>>, EmptyHeap))
    /\ UNCHANGED <<categoryQuery, store, db, objVars>>

\* BasicQueryEngine.cleanCategoryHandlers
cleanCategoryHandlers ==
    /\ categoryQuery' = <<>>
    /\ last' = Call("cleanCategoryHandlers", <<>>, Result(<<TRUE>>, EmptyHeap))
    /\ UNCHANGED <<journalQuery, store, db, objVars>>

\* JournalUploadHandler.pushDataToDb -> SparqlJournalRepository.load_csv ->
\* _InMemoryJournalStore.add_records, with the handler's next batch
pushJournalData(h) ==
    /\ store[h].fed < MaxBatches
    /\ store[h].fed < Len(Batches(h))
    /\ store' = [store EXCEPT ![h] = feed_store(@, h)]
    /\ last' = Call("pushDataToDb", <<h>>, Result(<<TRUE>>, EmptyHeap))
    /\ UNCHANGED <<journalQuery, categoryQuery, db, objVars>>

\* CategoryUploadHandler.pushDataToDb -> SQLiteCategoryRepository.load_json,
\* with a payload of the handler's next entry
pushCategoryData(k) ==
    /\ db[k].fed < MaxEntries
    /\ db[k].fed < Len(Entries(k))
    /\ db' = [db EXCEPT ![k] = feed_db(@, k)]
    /\ last' = Call("pushDataToDb", <<k>>, Result(<<TRUE>>, EmptyHeap))
    /\ UNCHANGED <<journalQuery, categoryQuery, store, objVars>>

\* a query leaves the engine and the stores as they are
Query(op, args, result) ==
    /\ last' = Call(op, args, result)
    /\ UNCHANGED <<journalQuery, categoryQuery, store, db, objVars>>

CallGetEntityById == \E id \in ArgIds : Query("getEntityById", <<id>>, getEntityById(Engine, id))

CallGetAllJournals == Query("getAllJournals", <<>>, getAllJournals(Engine))

CallGetJournalsWithTitle ==
    \E part \in ArgParts :
        Query("getJournalsWithTitle", <<part>>, getJournalsWithTitle(Engine, part))

CallGetJournalsPublishedBy ==
    \E part \in ArgParts :
        Query("getJournalsPublishedBy", <<part>>, getJournalsPublishedBy(Engine, part))

CallGetJournalsWithLicense ==
    \E l \in ArgLicenses :
        Query("getJournalsWithLicense", <<l>>, getJournalsWithLicense(Engine, l))

CallGetJournalsWithAPC == Query("getJournalsWithAPC", <<>>, getJournalsWithAPC(Engine))

CallGetJournalsWithDOAJSeal ==
    Query("getJournalsWithDOAJSeal", <<>>, getJournalsWithDOAJSeal(Engine))

CallGetAllCategories == Query("getAllCategories", <<>>, getAllCategories(Engine))

CallGetAllAreas == Query("getAllAreas", <<>>, getAllAreas(Engine))

CallGetCategoriesWithQuartile ==
    \E q \in ArgQuartiles :
        Query("getCategoriesWithQuartile", <<q>>, getCategoriesWithQuartile(Engine, q))

CallGetCategoriesAssignedToAreas ==
    \E a \in ArgAreas :
        Query("getCategoriesAssignedToAreas", <<a>>, getCategoriesAssignedToAreas(Engine, a))

CallGetAreasAssignedToCategories ==
    \E c \in ArgCategories :
        Query("getAreasAssignedToCategories", <<c>>, getAreasAssignedToCategories(Engine, c))

CallGetJournalsInCategoriesWithQuartile ==
    \E c \in ArgCategories, q \in ArgQuartiles :
        Query("getJournalsInCategoriesWithQuartile", <<c, q>>,
              getJournalsInCategoriesWithQuartile(Engine, c, q))

CallGetJournalsInAreasWithLicense ==
    \E a \in ArgAreas, l \in ArgLicenses :
        Query("getJournalsInAreasWithLicense", <<a, l>>,
              getJournalsInAreasWithLicense(Engine, a, l))

CallGetDiamondJournals ==
    \E t \in ArgDiamond :
        Query("getDiamondJournalsInAreasAndCategoriesWithQuartile", t,
              getDiamondJournalsInAreasAndCategoriesWithQuartile(Engine, t[1], t[2], t[3]))

Next ==
    \/ \E h \in JHandlers \cup {"None"} : addJournalHandler(h)
    \/ \E k \in CHandlers \cup {"None"} : addCategoryHandler(k)
    \/ cleanJournalHandlers
    \/ cleanCategoryHandlers
    \/ \E h \in JHandlers : pushJournalData(h)
    \/ \E k \in CHandlers : pushCategoryData(k)
    \/ CallGetEntityById
    \/ CallGetAllJournals
    \/ CallGetJournalsWithTitle
    \/ CallGetJournalsPublishedBy
    \/ CallGetJournalsWithLicense
    \/ CallGetJournalsWithAPC
    \/ CallGetJournalsWithDOAJSeal
    \/ CallGetAllCategories
    \/ CallGetAllAreas
    \/ CallGetCategoriesWithQuartile
    \/ CallGetCategoriesAssignedToAreas
    \/ CallGetAreasAssignedToCategories
    \/ CallGetJournalsInCategoriesWithQuartile
    \/ CallGetJournalsInAreasWithLicense
    \/ CallGetDiamondJournals

Spec == Init /\ [][Next]_vars

(***************************************************************************)
(* Properties of the hydration.  A query leaves the engine as it is, so    *)
(* the merged table and the merged export of the state in which last was   *)
(* recorded are those the call read.                                       *)
(***************************************************************************)

\* the merged table of getAllJournals in the current state
MergedAll == collect_journal_frames(journalQuery, store, "getAllJournals", EmptyStr)

\* the merged taxonomy export in the current state
MergedExport == collect_category_exports(categoryQuery, db)

\* the latest call was op and returned
Returns(op) == last.op = op /\ last.raised = "none"

\* the canonical ids the identifiers of row resolve to, in the order of the
\* identifiers that resolve
canonical_ids(row, exports) ==
    LET resolving == SelectSeq(row.identifiers,
                         LAMBDA x : x # EmptyStr /\ resolve_alias(exports.journal_alias, x) # {})
    IN [i \in DOMAIN resolving |->
           CHOOSE c \in resolve_alias(exports.journal_alias, resolving[i]) : TRUE]

\* the category ids and the area ids linked to canonical id J in the export
linked_categories(exports, J) == DOMAIN dict_get(exports.journal_categories, J, <<>>)

linked_areas(exports, J) == dict_get(exports.journal_areas, J, {})

\* C2: in a list returned by getAllJournals, the categories and areas of a
\* journal whose row has a resolving identifier all come from the canonical
\* id of the first identifier that resolves, also when a later identifier of
\* the row resolves to another canonical id.
C2_FirstMatchOnly ==
    Returns("getAllJournals") =>
        \A i \in DOMAIN last.value :
            LET canonical == canonical_ids(MergedAll.frame.rows[i], MergedExport)
            IN canonical # <<>> =>
                  /\ Refs(last.value[i].categories)
                         \subseteq linked_categories(MergedExport, canonical[1])
                  /\ Refs(last.value[i].areas)
                         \subseteq linked_areas(MergedExport, canonical[1])

\* C3: in a list returned by getAllJournals, a journal whose row has an
\* identifier that resolves to canonical id J carries every category of
\* journal_categories[J] and every area of journal_areas[J].
C3_AllLinkedAttached ==
    Returns("getAllJournals") =>
        \A i \in DOMAIN last.value :
            \A J \in Range(canonical_ids(MergedAll.frame.rows[i], MergedExport)) :
                /\ linked_categories(MergedExport, J) \subseteq Refs(last.value[i].categories)
                /\ linked_areas(MergedExport, J) \subseteq Refs(last.value[i].areas)

(***************************************************************************)
(* Properties of the merge                                                 *)
(***************************************************************************)

\* the journal-returning operations that hand the merged table to the hydration
MergeOps ==
    {"getAllJournals", "getJournalsWithTitle", "getJournalsPublishedBy",
     "getJournalsWithLicense", "getJournalsWithAPC", "getJournalsWithDOAJSeal"}

\* the argument the latest call handed to the handlers
LastArg == IF last.args = <<>> THEN EmptyStr ELSE last.args[1]

\* the rows the k-th registered handler returned to the latest call
HandlerRows(k) == journal_handler_call(store[journalQuery[k]], last.op, LastArg).frame.rows

\* the registered handlers that returned a row with id X
Returning(X) ==
    {k \in DOMAIN journalQuery : \E n \in DOMAIN HandlerRows(k) : HandlerRows(k)[n].id = X}

\* the first row with id X of the first registered handler returning one
FirstRow(X) ==
    LET k == CHOOSE k \in Returning(X) : \A m \in Returning(X) : k <= m
        n == CHOOSE n \in DOMAIN HandlerRows(k) :
                 /\ HandlerRows(k)[n].id = X
                 /\ \A m \in 1..(n - 1) : HandlerRows(k)[m].id # X
    IN HandlerRows(k)[n]

\* the ids two registered handlers both returned to the latest call
SharedIds ==
    {X \in UNION {{HandlerRows(k)[n].id : n \in DOMAIN HandlerRows(k)} :
                     k \in DOMAIN journalQuery} : Cardinality(Returning(X)) >= 2}

\* the merged table of the latest call
MergedLast == collect_journal_frames(journalQuery, store, last.op, LastArg).frame

\* the fields of journal are those of row
same_fields(journal, row) ==
    /\ journal.id = strip(row.id)
    /\ journal.title = strip(row.title)
    /\ journal.publisher = strip(row.publisher)
    /\ journal.license = strip(row.license)
    /\ journal.apc = row.apc
    /\ journal.doaj_seal = row.doaj_seal

\* C4: when two registered journal handlers both return a row with id X to a
\* journal-returning operation, the merged table has exactly one row with id
\* X, that row is the one of the handler registered first, and the journal
\* returned for it has that row's field values.
C4_FirstHandlerWins ==
    (last.op \in MergeOps /\ last.raised = "none") =>
        \A X \in SharedIds :
            /\ Cardinality({i \in DOMAIN MergedLast.rows : MergedLast.rows[i].id = X}) = 1
            /\ Cardinality({i \in DOMAIN last.value : last.value[i].id = strip(X)}) = 1
            /\ \A i \in DOMAIN MergedLast.rows :
                   MergedLast.rows[i].id = X =>
                       /\ MergedLast.rows[i] = FirstRow(X)
                       /\ same_fields(last.value[i], FirstRow(X))

\* a filtered operation returned, and two registered handlers had returned
\* rows with the same id and different titles
C4_Witness ==
    /\ last.op = "getJournalsWithTitle"
    /\ last.raised = "none"
    /\ \E X \in SharedIds :
          \E k, m \in Returning(X) :
              \E n \in DOMAIN HandlerRows(k), o \in DOMAIN HandlerRows(m) :
                  /\ HandlerRows(k)[n].id = X
                  /\ HandlerRows(m)[o].id = X
                  /\ HandlerRows(k)[n].title # HandlerRows(m)[o].title

(***************************************************************************)
(* Properties of the Full-tier queries                                     *)
(***************************************************************************)

\* the hydrated merged list the Full-tier queries choose from
AllJournals == getAllJournals(Engine)

\* category c of heap H has a requested id (or none is requested)
id_requested(H, c, requested) ==
    requested = {} \/ normalise_identifier(H.cats[c].id) \in requested

\* category c of heap H has a requested quartile (or none is requested)
quartile_requested(H, c, requested) ==
    requested = {} \/ \E q \in Range(H.cats[c].quartiles) : normalise_identifier(q) \in requested

\* one category of journal passes both tests
one_category_passes(journal, H, categories, quartiles) ==
    \E c \in Refs(journal.categories) :
        /\ id_requested(H, c, normalised_set(categories))
        /\ quartile_requested(H, c, normalised_set(quartiles))

\* C5: getJournalsInCategoriesWithQuartile returns, in the order of the merged
\* list, exactly the journals with one linked category that has a requested
\* id (or no category is requested) and a requested quartile (or no quartile
\* is requested).
C5_OneCategoryPassesBoth ==
    Returns("getJournalsInCategoriesWithQuartile") =>
        /\ AllJournals.raised = "none"
        /\ last.value =
              SelectSeq(AllJournals.value,
                  LAMBDA journal : one_category_passes(journal, AllJournals.heap,
                                       last.args[1], last.args[2]))

\* the query left out a journal of which one category has a requested id and
\* another a requested quartile
C5_Witness ==
    /\ Returns("getJournalsInCategoriesWithQuartile")
    /\ last.args[1] # <<>>
    /\ last.args[2] # <<>>
    /\ \E i \in DOMAIN AllJournals.value :
          /\ AllJournals.value[i] \notin Range(last.value)
          /\ \E c \in Refs(AllJournals.value[i].categories) :
                 id_requested(AllJournals.heap, c, normalised_set(last.args[1]))
          /\ \E c \in Refs(AllJournals.value[i].categories) :
                 quartile_requested(AllJournals.heap, c, normalised_set(last.args[2]))

\* journal has a requested area (or no area is requested)
area_requested(journal, H, areas) ==
    \/ normalised_set(areas) = {}
    \/ \E a \in Refs(journal.areas) :
           normalise_identifier(H.areas[a].id) \in normalised_set(areas)

\* C6: getDiamondJournalsInAreasAndCategoriesWithQuartile returns no journal
\* whose APC flag is true: it returns, in the order of the merged list,
\* exactly the journals without APC that have a requested area and one
\* category passing both tests.
C6_DiamondWithoutAPC ==
    Returns("getDiamondJournalsInAreasAndCategoriesWithQuartile") =>
        /\ \A i \in DOMAIN last.value : ~last.value[i].apc
        /\ AllJournals.raised = "none"
        /\ last.value =
              SelectSeq(AllJournals.value,
                  LAMBDA journal :
                      /\ ~journal.apc
                      /\ area_requested(journal, AllJournals.heap, last.args[1])
                      /\ one_category_passes(journal, AllJournals.heap,
                             last.args[2], last.args[3]))

\* the example: a journal without APC and a journal with APC are both in the
\* requested area, the first is in the requested category with the requested
\* quartile, and the query returned the first alone
C6_Witness ==
    /\ Returns("getDiamondJournalsInAreasAndCategoriesWithQuartile")
    /\ last.args[1] # <<>> /\ last.args[2] # <<>> /\ last.args[3] # <<>>
    /\ Len(last.value) = 1
    /\ \E i \in DOMAIN AllJournals.value :
          /\ AllJournals.value[i].apc
          /\ area_requested(AllJournals.value[i], AllJournals.heap, last.args[1])

\* journal has a requested license (or no license is requested)
license_requested(journal, licenses) ==
    \/ normalised_set(licenses) = {}
    \/ normalise_identifier(journal.license) \in normalised_set(licenses)

\* C7: getJournalsInAreasWithLicense returns, in the order of the merged
\* list, exactly the journals of the hydrated getAllJournals list that have
\* a requested license and a requested area: the filter on the rows before
\* the hydration selects what the same filter on the journals would select.
C7_LicenseThenAreas ==
    Returns("getJournalsInAreasWithLicense") =>
        /\ AllJournals.raised = "none"
        /\ last.value =
              SelectSeq(AllJournals.value,
                  LAMBDA journal :
                      /\ license_requested(journal, last.args[2])
                      /\ area_requested(journal, AllJournals.heap, last.args[1]))

\* areas and licenses were requested; the query returned a journal whose
\* license differs from the requested text in case or punctuation, left out
\* a journal in a requested area for its license and a journal with a
\* requested license for its areas
C7_Witness ==
    /\ Returns("getJournalsInAreasWithLicense")
    /\ last.args[1] # <<>>
    /\ last.args[2] # <<>>
    /\ \E i \in DOMAIN last.value : last.value[i].license \notin Range(last.args[2])
    /\ \E i \in DOMAIN AllJournals.value :
          /\ area_requested(AllJournals.value[i], AllJournals.heap, last.args[1])
          /\ ~license_requested(AllJournals.value[i], last.args[2])
    /\ \E i \in DOMAIN AllJournals.value :
          /\ ~area_requested(AllJournals.value[i], AllJournals.heap, last.args[1])
          /\ license_requested(AllJournals.value[i], last.args[2])

(***************************************************************************)
(* Properties of the taxonomy                                              *)
(***************************************************************************)

\* the Category and Area objects of heap H, read back, are the categories
\* and areas records of the export
reads_back(H, exports) ==
    /\ DOMAIN H.cats = DOMAIN exports.categories
    /\ DOMAIN H.areas = DOMAIN exports.areas
    /\ \A c \in DOMAIN H.cats :
          /\ H.cats[c].id = c
          /\ Range(getQuartiles(H.cats[c])) = exports.categories[c].quartiles
          /\ Len(getQuartiles(H.cats[c])) = Cardinality(exports.categories[c].quartiles)
          /\ {H.areas[a].id : a \in Range(getAreas(H.cats[c]))} = exports.categories[c].areas
          /\ Len(getAreas(H.cats[c])) = Cardinality(exports.categories[c].areas)
    /\ \A a \in DOMAIN H.areas :
          /\ H.areas[a].id = a
          /\ {H.cats[c].id : c \in Range(getCategories(H.areas[a]))}
                 = exports.areas[a].categories
          /\ Len(getCategories(H.areas[a])) = Cardinality(exports.areas[a].categories)

\* C8: the Category and Area objects getAllCategories and getAllAreas build
\* from the merged export read back as the export's categories and areas
\* records: the same categories, areas, quartile sets and category-area links.
C8_TaxonomyRoundTrip ==
    (Returns("getAllCategories") \/ Returns("getAllAreas")) =>
        /\ reads_back(last.heap, MergedExport)
        /\ Returns("getAllCategories") =>
               {last.value[i].id : i \in DOMAIN last.value} = DOMAIN MergedExport.categories
        /\ Returns("getAllAreas") =>
               {last.value[i].id : i \in DOMAIN last.value} = DOMAIN MergedExport.areas

\* the export merged from two repositories has a category with two quartiles
\* and two areas and an area with two categories
C8_Witness ==
    /\ Returns("getAllCategories")
    /\ Len(categoryQuery) = 2
    /\ \E c \in DOMAIN MergedExport.categories :
          /\ Cardinality(MergedExport.categories[c].quartiles) = 2
          /\ Cardinality(MergedExport.categories[c].areas) = 2
    /\ \E a \in DOMAIN MergedExport.areas :
          Cardinality(MergedExport.areas[a].categories) = 2

(***************************************************************************)
(* Properties of the engine without handlers                               *)
(***************************************************************************)

\* the queries of the Basic and the Full tier
QueryOps ==
    {"getEntityById", "getAllJournals", "getJournalsWithTitle", "getJournalsPublishedBy",
     "getJournalsWithLicense", "getJournalsWithAPC", "getJournalsWithDOAJSeal",
     "getAllCategories", "getAllAreas", "getCategoriesWithQuartile",
     "getCategoriesAssignedToAreas", "getAreasAssignedToCategories",
     "getJournalsInCategoriesWithQuartile", "getJournalsInAreasWithLicense",
     "getDiamondJournalsInAreasAndCategoriesWithQuartile"}

\* C9: a query of an engine without registered handlers, freshly created or
\* cleaned, does not raise and returns the empty list (None for getEntityById,
\* recorded as the empty list).
C9_NoHandlers ==
    (journalQuery = <<>> /\ categoryQuery = <<>> /\ last.op \in QueryOps) =>
        last.raised = "none" /\ last.value = <<>>

\* the diamond query, with arguments, of an engine that has no handler while
\* the stores hold journals and the repositories a taxonomy
C9_Witness ==
    /\ journalQuery = <<>>
    /\ categoryQuery = <<>>
    /\ last.op = "getDiamondJournalsInAreasAndCategoriesWithQuartile"
    /\ last.args[1] # <<>>
    /\ \A h \in JHandlers : store[h].frame.rows # <<>>
    /\ \A k \in CHandlers : db[k].journal # {}

(***************************************************************************)
(* The specification SpecShapes: journal handlers whose tables lack        *)
(* columns.  The store of h1 is fed a record without the keys id and       *)
(* identifiers, the store of h2 a record without the keys apc and license; *)
(* the repository of k2 is loaded as in Spec.                              *)
(***************************************************************************)

\* record without the keys of missing
without(record, missing) ==
    [f \in DOMAIN record |->
        IF f = "keys" THEN record.keys \ missing
        ELSE IF f \notin missing THEN record[f]
        ELSE IF f \in {"apc", "doaj_seal"} THEN FALSE
        ELSE <<>>]

\* the batches handler h hands to add_records in SpecShapes
ShapedBatches(h) ==
    CASE h = "h1" -> <<<<without(R1, {"id", "identifiers"})>>>>
      [] h = "h2" -> <<<<without(R3, {"apc", "license"})>>>>

ShapesInit ==
    /\ catObj = <<>>
    /\ areaObj = <<>>
    /\ journalObj = <<>>
    /\ journalQuery = <<>>
    /\ categoryQuery = <<>>
    /\ store = [h \in JHandlers |-> [EmptyStore EXCEPT !.repository = TRUE]]
    /\ db = [k \in CHandlers |-> fed_db(EmptyDb, k, Preloaded(k))]
    /\ last = Idle

\* _InMemoryJournalStore.add_records with the handler's next batch
pushShapedData(h) ==
    /\ store[h].fed < Len(ShapedBatches(h))
    /\ ~add_records_raises(store[h], ShapedBatches(h)[store[h].fed + 1])
    /\ store' = [store EXCEPT
                    ![h] = [add_records(@, ShapedBatches(h)[@.fed + 1]) EXCEPT !.fed = @ + 1]]
    /\ last' = Call("add_records", <<h>>, Result(<<TRUE>>, EmptyHeap))
    /\ UNCHANGED <<journalQuery, categoryQuery, db, objVars>>

ShapesNext ==
    \/ \E h \in JHandlers : addJournalHandler(h)
    \/ \E k \in CHandlers : addCategoryHandler(k)
    \/ cleanJournalHandlers
    \/ \E h \in JHandlers : pushShapedData(h)
    \/ CallGetEntityById
    \/ CallGetAllJournals
    \/ CallGetJournalsWithLicense
    \/ CallGetJournalsWithAPC
    \/ CallGetJournalsInAreasWithLicense
    \/ CallGetDiamondJournals

SpecShapes == ShapesInit /\ [][ShapesNext]_vars

\* the answer of the k-th registered handler to the latest call
HandlerAnswer(k) == journal_handler_call(store[journalQuery[k]], last.op, LastArg)

\* C10: a journal-returning operation raises when a registered journal
\* handler has answered it with a table that has rows and lacks a column of
\* JournalQueryHandler.COLUMNS.
C10_MalformedTableFails ==
    (/\ last.op \in MergeOps
     /\ \E k \in DOMAIN journalQuery :
           /\ HandlerAnswer(k).raised = "none"
           /\ HandlerAnswer(k).frame.rows # <<>>
           /\ ~(COLUMNS \subseteq HandlerAnswer(k).frame.cols))
    => last.raised # "none"

(***************************************************************************)
(* The specification SpecFanOut: query handlers that may lack a            *)
(* repository.  The stores and the SQLite files were loaded through the    *)
(* upload handlers before; a query handler reads them once setDbPathOrUrl  *)
(* has given it its repository.                                            *)
(***************************************************************************)

\* the argument of setDbPathOrUrl: a str, or something else
PathArgs == {"url", "None"}

FanOutInit ==
    /\ catObj = <<>>
    /\ areaObj = <<>>
    /\ journalObj = <<>>
    /\ journalQuery = <<>>
    /\ categoryQuery = <<>>
    /\ store = [h \in JHandlers |-> fed_store(EmptyStore, h, 1)]
    /\ db = [k \in CHandlers |->
                [fed_db(EmptyDb, k, Len(Entries("k2"))) EXCEPT !.repository = FALSE]]
    /\ last = Idle

\* JournalQueryHandler.setDbPathOrUrl: the repository is created for a str
setJournalDbPathOrUrl(h, path) ==
    /\ store' = [store EXCEPT ![h].repository = IF path = "None" THEN @ ELSE TRUE]
    /\ last' = Call("setDbPathOrUrl", <<h, path>>, Result(<<path # "None">>, EmptyHeap))
    /\ UNCHANGED <<journalQuery, categoryQuery, db, objVars>>

\* CategoryQueryHandler.setDbPathOrUrl
setCategoryDbPathOrUrl(k, path) ==
    /\ db' = [db EXCEPT ![k].repository = IF path = "None" THEN @ ELSE TRUE]
    /\ last' = Call("setDbPathOrUrl", <<k, path>>, Result(<<path # "None">>, EmptyHeap))
    /\ UNCHANGED <<journalQuery, categoryQuery, store, objVars>>

FanOutNext ==
    \/ \E h \in JHandlers, path \in PathArgs : setJournalDbPathOrUrl(h, path)
    \/ \E k \in CHandlers, path \in PathArgs : setCategoryDbPathOrUrl(k, path)
    \/ \E h \in JHandlers : addJournalHandler(h)
    \/ \E k \in CHandlers : addCategoryHandler(k)
    \/ CallGetAllJournals
    \/ CallGetJournalsWithAPC
    \/ CallGetAllCategories
    \/ CallGetAllAreas

SpecFanOut == FanOutInit /\ [][FanOutNext]_vars

\* the registered journal handlers that answered the latest call with rows
Contributing ==
    SelectSeq(journalQuery,
        LAMBDA h : journal_handler_call(store[h], last.op, LastArg).frame.rows # <<>>)

\* the registered category handlers that have a repository
Configured == SelectSeq(categoryQuery, LAMBDA k : db[k].repository)

\* the engine with only the handlers that produce data registered
ProducingEngine ==
    [journalQuery |-> Contributing, categoryQuery |-> Configured, store |-> store, db |-> db]

\* the engine with only the category handlers that have a repository
ConfiguredEngine ==
    [journalQuery |-> journalQuery, categoryQuery |-> Configured, store |-> store, db |-> db]

\* the latest result is the result value
IsResult(result) ==
    last.raised = result.raised /\ last.value = result.value /\ last.heap = result.heap

\* C11: a query returns without raising what it returns when only the
\* handlers that produce data are registered: the journal handlers
\* answering with rows and the category handlers with a repository.  A
\* handler without a repository or with an empty answer takes nothing away
\* from the rows and exports of the others.
C11_EmptyHandlersSkipped ==
    /\ last.op \in {"getAllJournals", "getJournalsWithAPC"} =>
          /\ last.raised = "none"
          /\ IsResult(journal_query(ProducingEngine, last.op, LastArg))
    /\ last.op = "getAllCategories" => IsResult(getAllCategories(ConfiguredEngine))
    /\ last.op = "getAllAreas" => IsResult(getAllAreas(ConfiguredEngine))

\* a journal handler without a repository is registered before one that
\* yields rows, a category handler without a repository before one with a
\* taxonomy, and getAllJournals returned journals with categories
C11_Witness ==
    /\ Returns("getAllJournals")
    /\ Len(journalQuery) = 2
    /\ ~store[journalQuery[1]].repository
    /\ Len(categoryQuery) = 2
    /\ ~db[categoryQuery[1]].repository
    /\ \E i \in DOMAIN last.value : last.value[i].categories # <<>>

(***************************************************************************)
(* Handler management                                                      *)
(***************************************************************************)

\* no handler twice
duplicate_free(handlers) ==
    \A i, j \in DOMAIN handlers : handlers[i] = handlers[j] => i = j

\* what a call of an add operation does to its collection: the handler goes
\* to the end when it is non-null and new, and the call returns whether it did
adds(handlers, after) ==
    LET handler == last'.args[1]
        added == handler # "None" /\ \A i \in DOMAIN handlers : handlers[i] # handler
    IN /\ last'.value = <<added>>
       /\ after = IF added THEN handlers \o <<handler>> ELSE handlers

\* C12: addJournalHandler and addCategoryHandler return true exactly when
\* the handler is non-null and not yet in the collection, and then put it
\* at the end; no other call but the collection's clean changes the
\* collection, so each collection holds no handler twice and lists the
\* handlers in the order of their first addition since the last clean.
C12_AddHandlers ==
    [][/\ last'.op = "addJournalHandler" => adds(journalQuery, journalQuery')
       /\ last'.op = "addCategoryHandler" => adds(categoryQuery, categoryQuery')
       /\ last'.op \notin {"addJournalHandler", "cleanJournalHandlers"} =>
              journalQuery' = journalQuery
       /\ last'.op \notin {"addCategoryHandler", "cleanCategoryHandlers"} =>
              categoryQuery' = categoryQuery
       /\ duplicate_free(journalQuery')
       /\ duplicate_free(categoryQuery')]_vars

\* a second addition of the first of two registered journal handlers was
\* refused, and so was a null category handler after a registered one
C12_Witness ==
    /\ last.op = "addJournalHandler"
    /\ last.value = <<FALSE>>
    /\ Len(journalQuery) = 2
    /\ last.args[1] = journalQuery[1]
    /\ Len(categoryQuery) = 1

\* C13: cleanJournalHandlers returns true, leaves the journal handler
\* collection empty and the category handler collection as it was;
\* cleanCategoryHandlers does the same with the roles swapped.
C13_CleanHandlers ==
    [][/\ last'.op = "cleanJournalHandlers" =>
              /\ last'.value = <<TRUE>>
              /\ last'.raised = "none"
              /\ journalQuery' = <<>>
              /\ categoryQuery' = categoryQuery
       /\ last'.op = "cleanCategoryHandlers" =>
              /\ last'.value = <<TRUE>>
              /\ last'.raised = "none"
              /\ categoryQuery' = <<>>
              /\ journalQuery' = journalQuery]_vars

\* the journal handlers were cleaned while category handlers stay registered
C13_Witness ==
    /\ last.op = "cleanJournalHandlers"
    /\ last.value = <<TRUE>>
    /\ journalQuery = <<>>
    /\ Len(categoryQuery) = 2

(***************************************************************************)
(* The merged taxonomy export                                              *)
(***************************************************************************)

\* the exports of the registered category handlers that have a repository
RegisteredExports ==
    {export_all(db[k]) : k \in {h \in Range(categoryQuery) : db[h].repository}}

\* the keys of a field over all the exports, and the exports having a key
field_keys(exports, field) == UNION {DOMAIN e[field] : e \in exports}

having(exports, field, key) == {e \in exports : key \in DOMAIN e[field]}

\* merged has, field by field, the set union of the exports
is_union(merged, exports) ==
    /\ DOMAIN merged.categories = field_keys(exports, "categories")
    /\ \A cid \in DOMAIN merged.categories :
          /\ merged.categories[cid].quartiles =
                 UNION {e.categories[cid].quartiles : e \in having(exports, "categories", cid)}
          /\ merged.categories[cid].areas =
                 UNION {e.categories[cid].areas : e \in having(exports, "categories", cid)}
    /\ DOMAIN merged.areas = field_keys(exports, "areas")
    /\ \A aid \in DOMAIN merged.areas :
          merged.areas[aid].categories =
              UNION {e.areas[aid].categories : e \in having(exports, "areas", aid)}
    /\ DOMAIN merged.journal_categories = field_keys(exports, "journal_categories")
    /\ \A jid \in DOMAIN merged.journal_categories :
          LET of_journal == {e.journal_categories[jid] :
                                e \in having(exports, "journal_categories", jid)}
          IN /\ DOMAIN merged.journal_categories[jid] = UNION {DOMAIN m : m \in of_journal}
             /\ \A cid \in DOMAIN merged.journal_categories[jid] :
                   merged.journal_categories[jid][cid] =
                       UNION {m[cid] : m \in {x \in of_journal : cid \in DOMAIN x}}
    /\ DOMAIN merged.journal_areas = field_keys(exports, "journal_areas")
    /\ \A jid \in DOMAIN merged.journal_areas :
          merged.journal_areas[jid] =
              UNION {e.journal_areas[jid] : e \in having(exports, "journal_areas", jid)}

\* the handlers in the opposite registration order
Reversed(handlers) == [i \in DOMAIN handlers |-> handlers[Len(handlers) + 1 - i]]

\* the five set-valued fields of two merged exports are the same
same_sets(m1, m2) ==
    /\ m1.categories = m2.categories
    /\ m1.areas = m2.areas
    /\ m1.journal_categories = m2.journal_categories
    /\ m1.journal_areas = m2.journal_areas

\* C14: the merged taxonomy export is, field by field (category quartiles,
\* category areas, area categories, journal-to-category quartile sets,
\* journal-to-area sets), the set union of the exports of the registered
\* category handlers, and so the same in the opposite registration order.
C14_ExportIsUnion ==
    /\ is_union(MergedExport, RegisteredExports)
    /\ same_sets(MergedExport, collect_category_exports(Reversed(categoryQuery), db))

\* a taxonomy query ran on two registered repositories that both know a
\* category, each with a quartile and an area the other does not have, and
\* both link the category to a journal
C14_Witness ==
    /\ Returns("getAllCategories")
    /\ Len(categoryQuery) = 2
    /\ LET e1 == export_all(db[categoryQuery[1]])
           e2 == export_all(db[categoryQuery[2]])
       IN /\ \E cid \in DOMAIN e1.categories \cap DOMAIN e2.categories :
                /\ e1.categories[cid].quartiles \ e2.categories[cid].quartiles # {}
                /\ e2.categories[cid].quartiles \ e1.categories[cid].quartiles # {}
                /\ e1.categories[cid].areas # e2.categories[cid].areas
          /\ \E aid \in DOMAIN e1.areas \cap DOMAIN e2.areas :
                e1.areas[aid].categories # e2.areas[aid].categories

(***************************************************************************)
(* Alias collisions.  In SpecAliases each repository is loaded with two    *)
(* entries whose identifiers "1-2" and "1 2" have the same normalised      *)
(* form, the two repositories in opposite orders; the second repository    *)
(* also gets an area whose id has the normalised form of a category id.    *)
(***************************************************************************)

\* the entries handler k loads in SpecAliases
\* an entry whose area id "c-1" has the normalised form of the category id "C1"
E6 == Entry(<<s5>>, <<CatEntry(sC3, sQ1)>>, <<(<<"c", "-", "1">>)>>)

AliasEntries(k) ==
    CASE k = "k1" -> <<E1, E4>>
      [] k = "k2" -> <<E4, E1, E6>>

AliasesInit ==
    /\ catObj = <<>>
    /\ areaObj = <<>>
    /\ journalObj = <<>>
    /\ journalQuery = <<>>
    /\ categoryQuery = <<>>
    /\ store = [h \in JHandlers |-> fed_store([EmptyStore EXCEPT !.repository = TRUE], h, 1)]
    /\ db = [k \in CHandlers |-> EmptyDb]
    /\ last = Idle

\* CategoryUploadHandler.pushDataToDb -> SQLiteCategoryRepository.load_json,
\* with a payload of the handler's next entry
pushAliasData(k) ==
    /\ db[k].fed < Len(AliasEntries(k))
    /\ db' = [db EXCEPT
                 ![k] = [load_json_entry(@, AliasEntries(k)[@.fed + 1],
                                         SeqOf(entry_aliases(AliasEntries(k)[@.fed + 1])))
                            EXCEPT !.fed = @ + 1]]
    /\ last' = Call("pushDataToDb", <<k>>, Result(<<TRUE>>, EmptyHeap))
    /\ UNCHANGED <<journalQuery, categoryQuery, store, objVars>>

AliasesNext ==
    \/ \E h \in JHandlers : addJournalHandler(h)
    \/ \E k \in CHandlers : addCategoryHandler(k)
    \/ cleanCategoryHandlers
    \/ \E k \in CHandlers : pushAliasData(k)
    \/ CallGetEntityById
    \/ CallGetAllJournals

SpecAliases == AliasesInit /\ [][AliasesNext]_vars

\* the rows of an alias table whose alias normalises to key
rows_of(table, key) == {i \in DOMAIN table : normalise_identifier(table[i].alias) = key}

\* the registered category handlers whose repository has an alias row for key
sources_of(key) ==
    {n \in DOMAIN categoryQuery :
        /\ db[categoryQuery[n]].repository
        /\ rows_of(db[categoryQuery[n]].journal_alias, key) # {}}

\* the mapping of key seen first: the first alias row for key in the
\* repository of the earliest-registered handler that has one
first_seen(key) ==
    LET n == CHOOSE n \in sources_of(key) : \A m \in sources_of(key) : n <= m
        table == db[categoryQuery[n]].journal_alias
        i == CHOOSE i \in rows_of(table, key) : \A j \in rows_of(table, key) : i <= j
    IN table[i].journal_id

\* C15: every key of the merged alias map has the mapping seen first: that
\* of the earliest-registered category handler having the key and, within
\* that handler's repository, that of the first alias row normalising to
\* the key.
C15_FirstSeenAlias ==
    \A key \in DOMAIN MergedExport.journal_alias :
        MergedExport.journal_alias[key] = first_seen(key)

(***************************************************************************)
(* getEntityById                                                           *)
(***************************************************************************)

\* a registered journal handler resolves identifier to a row
journal_resolves(identifier) ==
    \E n \in DOMAIN journalQuery :
        journal_handler_call(store[journalQuery[n]], "getById", identifier).frame.rows # <<>>

\* the ids of the merged export's field whose normalised form is that of identifier
ids_like(field, identifier) ==
    {x \in DOMAIN field : normalise_identifier(x) = normalise_identifier(identifier)}

\* the latest call returned one entity of the kind, with the normalised id
\* of the identifier when the kind is a taxonomy kind
returned_kind(kind, identifier) ==
    /\ Len(last.value) = 1
    /\ last.value[1].kind = kind
    /\ kind # "Journal" =>
          normalise_identifier(last.value[1].entity.id) = normalise_identifier(identifier)

\* C16: getEntityById(id) returns a Journal when a registered journal
\* handler resolves id to a row; otherwise a Category whose normalised id is
\* normalise(id) when there is one, whether or not an area has it too;
\* otherwise an Area with that normalised id; otherwise None.
C16_EntityPrecedence ==
    last.op = "getEntityById" =>
        LET id == last.args[1]
            cats == ids_like(MergedExport.categories, id)
            areas == ids_like(MergedExport.areas, id)
        IN /\ last.raised = "none"
           /\ IF journal_resolves(id) THEN returned_kind("Journal", id)
              ELSE IF cats # {} THEN returned_kind("Category", id)
              ELSE IF areas # {} THEN returned_kind("Area", id)
              ELSE last.value = <<>>

\* getEntityById was called with an id that no journal handler resolves and
\* that both a category and an area have, and returned the category
C16_Witness ==
    /\ Returns("getEntityById")
    /\ journalQuery # <<>>
    /\ ~journal_resolves(last.args[1])
    /\ ids_like(MergedExport.categories, last.args[1]) # {}
    /\ ids_like(MergedExport.areas, last.args[1]) # {}
    /\ returned_kind("Category", last.args[1])

(***************************************************************************)
(* One journal per row                                                     *)
(***************************************************************************)

\* C17: a journal-returning operation that returns has hydrated the merged
\* table into one Journal per row, in the order of the rows; a journal none
\* of whose identifiers has an entry in the merged alias map is in the list
\* all the same, without categories and without areas.
C17_OneJournalPerRow ==
    (last.op \in MergeOps /\ last.raised = "none") =>
        /\ Len(last.value) = Len(MergedLast.rows)
        /\ \A i \in DOMAIN last.value :
              /\ same_fields(last.value[i], MergedLast.rows[i])
              /\ canonical_ids(MergedLast.rows[i], MergedExport) = <<>> =>
                     /\ last.value[i].categories = <<>>
                     /\ last.value[i].areas = <<>>

\* getAllJournals returned, for a table of three rows or more, a journal
\* with categories and a journal that the registered taxonomy does not know
C17_Witness ==
    /\ Returns("getAllJournals")
    /\ categoryQuery # <<>>
    /\ Len(last.value) >= 3
    /\ \E i \in DOMAIN last.value : last.value[i].categories # <<>>
    /\ \E i \in DOMAIN last.value :
          /\ canonical_ids(MergedLast.rows[i], MergedExport) = <<>>
          /\ last.value[i].categories = <<>>
          /\ last.value[i].areas = <<>>

(***************************************************************************)
(* The vacuous quartile filter                                             *)
(***************************************************************************)

\* C18: getCategoriesWithQuartile called with an empty collection returns
\* what getAllCategories() returns, whatever category handlers are
\* registered.
C18_EmptyQuartilesAll ==
    (last.op = "getCategoriesWithQuartile" /\ last.args[1] = <<>>) =>
        IsResult(getAllCategories(Engine))

\* the call with an empty collection returned the categories of two
\* registered repositories, with one quartile and with two
C18_Witness ==
    /\ Returns("getCategoriesWithQuartile")
    /\ last.args[1] = <<>>
    /\ Len(categoryQuery) = 2
    /\ Len(last.value) >= 2
    /\ \E i \in DOMAIN last.value : Len(last.value[i].quartiles) = 1
    /\ \E i \in DOMAIN last.value : Len(last.value[i].quartiles) = 2

(***************************************************************************)
(* The identifier normaliser on its own.  SpecNormalise calls              *)
(* _normalise_identifier with None, with every string of up to MaxLen      *)
(* characters of InputChars, with the four spellings of one ISSN, and      *)
(* with its own latest result.                                             *)
(***************************************************************************)

MaxLen == 3

\* a digit, a lower-case and an upper-case letter, a hyphen, a space and a
\* punctuation mark
InputChars == {"1", "a", "A", "-", " ", "."}

Separators == {"-", " ", "."}

\* the strings of exactly n characters
RECURSIVE StringsOf(_)
StringsOf(n) ==
    IF n = 0 THEN {EmptyStr}
    ELSE {Append(s, ch) : s \in StringsOf(n - 1), ch \in InputChars}

\* "1234-5678", "1234 5678", " 1234-5678 " and "12345678"
IssnSpellings ==
    {<<"1", "2", "3", "4", "-", "5", "6", "7", "8">>,
     <<"1", "2", "3", "4", " ", "5", "6", "7", "8">>,
     <<" ", "1", "2", "3", "4", "-", "5", "6", "7", "8", " ">>,
     <<"1", "2", "3", "4", "5", "6", "7", "8">>}

NormaliseArgs ==
    {Absent} \cup {Str(s) : s \in UNION {StringsOf(n) : n \in 0..MaxLen} \cup IssnSpellings}

NormaliseInit ==
    /\ catObj = <<>>
    /\ areaObj = <<>>
    /\ journalObj = <<>>
    /\ journalQuery = <<>>
    /\ categoryQuery = <<>>
    /\ store = [h \in JHandlers |-> EmptyStore]
    /\ db = [k \in CHandlers |-> EmptyDb]
    /\ last = Idle

\* a call of _normalise_identifier
CallNormalise(value) ==
    /\ last' = Call("_normalise_identifier", <<value>>,
                    Result(<<normalise_identifier_of(value)>>, EmptyHeap))
    /\ UNCHANGED <<journalQuery, categoryQuery, store, db, objVars>>

\* a call of _normalise_identifier with the result of the latest call
CallNormaliseAgain ==
    /\ last.op = "_normalise_identifier"
    /\ CallNormalise(Str(last.value[1]))

NormaliseNext ==
    \/ \E value \in NormaliseArgs : CallNormalise(value)
    \/ CallNormaliseAgain

SpecNormalise == NormaliseInit /\ [][NormaliseNext]_vars

\* C19: normalising the result of _normalise_identifier again gives that
\* result: normalise(normalise(x)) = normalise(x).
C19_Idempotent ==
    last.op = "_normalise_identifier" =>
        normalise_identifier_of(Str(last.value[1])) = last.value[1]

\* a string with an upper-case letter and a separator was normalised to a
\* key that is not the string
C19_Witness ==
    /\ last.op = "_normalise_identifier"
    /\ last.args[1].present
    /\ "A" \in Range(last.args[1].str)
    /\ Range(last.args[1].str) \cap Separators # {}
    /\ Len(last.value[1]) >= 2
    /\ last.value[1] # last.args[1].str

\* s with the letter at position i in the other case
other_case(s, i) ==
    [s EXCEPT ![i] = IF @ \in DOMAIN LowerOf THEN LowerOf[@]
                     ELSE IF \E u \in DOMAIN LowerOf : LowerOf[u] = @
                     THEN CHOOSE u \in DOMAIN LowerOf : LowerOf[u] = @
                     ELSE @]

\* the strings that differ from s in the case of one letter, in one
\* separator (hyphen, space, punctuation mark) more or less, or in one more
\* space in front or behind
Spellings(s) ==
    {other_case(s, i) : i \in DOMAIN s}
    \cup {SubSeq(s, 1, i) \o <<ch>> \o SubSeq(s, i + 1, Len(s)) :
              i \in 0..Len(s), ch \in Separators}
    \cup {SubSeq(s, 1, i - 1) \o SubSeq(s, i + 1, Len(s)) :
              i \in {k \in DOMAIN s : s[k] \in Separators}}

\* C20: the result of _normalise_identifier has only characters 0-9 and
\* a-z; it is the empty string for None and for the empty string; a string
\* that differs from the argument in letter case, surrounding whitespace,
\* hyphens, spaces or punctuation has the same result; the four spellings
\* "1234-5678", "1234 5678", " 1234-5678 " and "12345678" give "12345678".
C20_KeyOnlyAndEqual ==
    last.op = "_normalise_identifier" =>
        LET value == last.args[1]
            key == last.value[1]
        IN /\ \A i \in DOMAIN key :
                 key[i] \in Digits \/ \E n \in DOMAIN LowerCase : key[i] = LowerCase[n]
           /\ (~value.present \/ value.str = EmptyStr) => key = EmptyStr
           /\ value.present =>
                 \A other \in Spellings(value.str) :
                     normalise_identifier_of(Str(other)) = key
           /\ (value.present /\ value.str \in IssnSpellings) =>
                 key = <<"1", "2", "3", "4", "5", "6", "7", "8">>

\* the spelling " 1234-5678 " of the ISSN was normalised
C20_Witness ==
    /\ last.op = "_normalise_identifier"
    /\ last.args[1].present
    /\ Len(last.args[1].str) = 11
    /\ last.value[1] = <<"1", "2", "3", "4", "5", "6", "7", "8">>

(***************************************************************************)
(* Adding a linked entity again                                            *)
(***************************************************************************)

\* the call adds nothing: no object's linked sets or quartiles change
no_op(call) == call => UNCHANGED objVars

\* C21: a call of addArea / addCategory on a Category, an Area or a Journal
\* whose linked set already has an entity with the identifier of the
\* argument leaves every linked set as it is, in contents and order, and
\* addQuartile with a quartile the category already has leaves the
\* quartiles as they are.
C21_AddAgainNoOp ==
    [][/\ \A c \in CatRefs, a \in AreaRefs :
             /\ no_op(areaObj[a].id \in Keys(catObj[c].areas) /\ CallCategoryAddArea(c, a))
             /\ no_op(catObj[c].id \in Keys(areaObj[a].categories)
                      /\ CallAreaAddCategory(a, c))
       /\ \A j \in JournalRefs, c \in CatRefs :
             no_op(catObj[c].id \in Keys(journalObj[j].categories)
                   /\ CallJournalAddCategory(j, c))
       /\ \A j \in JournalRefs, a \in AreaRefs :
             no_op(areaObj[a].id \in Keys(journalObj[j].areas) /\ CallJournalAddArea(j, a))
       /\ \A c \in CatRefs, q \in PoolQuartiles :
             no_op(q \in Range(catObj[c].quartiles) /\ CallAddQuartile(c, q))]_vars

(***************************************************************************)
(* Handler setup.  In SpecSetup a handler is its stored path and the       *)
(* location its repository was created with (Absent while it has none);    *)
(* store holds the journal handlers and db the category handlers.          *)
(***************************************************************************)

\* Handler.__init__ and the subclass __init__: no path, no repository
NewHandler == [dbPathOrUrl |-> EmptyStr, repository |-> Absent]

\* a setup that forgets the stored path and the repository when the
\* argument is not a str
configure_or_reset(handler, arg) ==
    IF ~arg.present THEN [ok |-> FALSE, handler |-> [dbPathOrUrl |-> EmptyStr, repository |-> [present |-> FALSE, str |-> EmptyStr]]]
    ELSE [ok |-> TRUE,
          handler |-> [dbPathOrUrl |-> strip(arg.str), repository |-> Str(strip(arg.str))]]

\* setDbPathOrUrl of a query or upload handler: Handler.setDbPathOrUrl, and
\* on success the repository created with getDbPathOrUrl(); ok is the
\* value returned
configure(handler, arg) ==
    IF ~arg.present THEN [ok |-> FALSE, handler |-> handler]
    ELSE [ok |-> TRUE,
          handler |-> [dbPathOrUrl |-> strip(arg.str), repository |-> Str(strip(arg.str))]]

\* the arguments of setDbPathOrUrl: None, and strings with and without
\* surrounding whitespace
SetupArgs == {Absent, Str(EmptyStr), Str(<<"u">>), Str(<<" ", "u", " ">>), Str(<<"v", " ">>)}

SetupInit ==
    /\ catObj = <<>>
    /\ areaObj = <<>>
    /\ journalObj = <<>>
    /\ journalQuery = <<>>
    /\ categoryQuery = <<>>
    /\ store = [h \in JHandlers |-> NewHandler]
    /\ db = [k \in CHandlers |-> NewHandler]
    /\ last = Idle

\* JournalQueryHandler.setDbPathOrUrl, JournalUploadHandler.setDbPathOrUrl
JournalHandlerSetup(h, arg) ==
    /\ store' = [store EXCEPT ![h] = configure(@, arg).handler]
    /\ last' = Call("setDbPathOrUrl", <<h, arg>>,
                    Result(<<configure(store[h], arg).ok>>, EmptyHeap))
    /\ UNCHANGED <<journalQuery, categoryQuery, db, objVars>>

\* CategoryQueryHandler.setDbPathOrUrl, CategoryUploadHandler.setDbPathOrUrl
CategoryHandlerSetup(k, arg) ==
    /\ db' = [db EXCEPT ![k] = configure(@, arg).handler]
    /\ last' = Call("setDbPathOrUrl", <<k, arg>>,
                    Result(<<configure(db[k], arg).ok>>, EmptyHeap))
    /\ UNCHANGED <<journalQuery, categoryQuery, store, objVars>>

\* Handler.getDbPathOrUrl
CallGetDbPathOrUrl(handler) ==
    /\ last' = Call("getDbPathOrUrl", <<handler>>,
                    Result(<<IF handler \in JHandlers THEN store[handler].dbPathOrUrl
                             ELSE db[handler].dbPathOrUrl>>, EmptyHeap))
    /\ UNCHANGED <<journalQuery, categoryQuery, store, db, objVars>>

SetupNext ==
    \/ \E h \in JHandlers, arg \in SetupArgs : JournalHandlerSetup(h, arg)
    \/ \E k \in CHandlers, arg \in SetupArgs : CategoryHandlerSetup(k, arg)
    \/ \E handler \in JHandlers \cup CHandlers : CallGetDbPathOrUrl(handler)

SpecSetup == SetupInit /\ [][SetupNext]_vars

\* what a call of setDbPathOrUrl does to the handler it is called on
sets_up(before, after) ==
    LET arg == last'.args[2]
    IN /\ last'.raised = "none"
       /\ IF arg.present
          THEN /\ last'.value = <<TRUE>>
               /\ after.dbPathOrUrl = strip(arg.str)
          ELSE /\ last'.value = <<FALSE>>
               /\ after.dbPathOrUrl = before.dbPathOrUrl
               /\ after.repository = before.repository

\* C22: setDbPathOrUrl with a value that is not a string returns false
\* without raising and leaves the handler's stored path and repository as
\* they were; with a string it returns true and stores the trimmed string.
C22_SetupFailsQuietly ==
    [][last'.op = "setDbPathOrUrl" =>
          /\ last'.args[1] \in JHandlers =>
                 sets_up(store[last'.args[1]], store'[last'.args[1]])
          /\ last'.args[1] \in CHandlers =>
                 sets_up(db[last'.args[1]], db'[last'.args[1]])]_vars

\* a journal handler that was set up with a path was called with None and
\* returned false, and a category handler holds a trimmed path
C22_Witness ==
    /\ last.op = "setDbPathOrUrl"
    /\ last.args[1] \in JHandlers
    /\ ~last.args[2].present
    /\ last.value = <<FALSE>>
    /\ store[last.args[1]].dbPathOrUrl = <<"u">>
    /\ store[last.args[1]].repository = Str(<<"u">>)
    /\ \E k \in CHandlers : db[k].dbPathOrUrl = <<"v">>

(***************************************************************************)
(* The diamond query and the category/quartile query                       *)
(***************************************************************************)

\* what getJournalsInCategoriesWithQuartile returns for the categories and
\* quartiles of the latest diamond query
InCategories == getJournalsInCategoriesWithQuartile(Engine, last.args[2], last.args[3])

\* C23: getDiamondJournalsInAreasAndCategoriesWithQuartile(areas,
\* categories, quartiles) returns, in the same order, exactly the journals
\* of getJournalsInCategoriesWithQuartile(categories, quartiles) whose APC
\* flag is false and that have a requested area (or no area is requested).
C23_DiamondRefinesCategories ==
    Returns("getDiamondJournalsInAreasAndCategoriesWithQuartile") =>
        /\ InCategories.raised = "none"
        /\ last.value =
              SelectSeq(InCategories.value,
                  LAMBDA journal :
                      /\ ~journal.apc
                      /\ area_requested(journal, InCategories.heap, last.args[1]))

\* the diamond query, asked for an area, returned a journal and left out a
\* journal of the category/quartile query that is in the area and has APC
C23_Witness ==
    /\ Returns("getDiamondJournalsInAreasAndCategoriesWithQuartile")
    /\ last.args[1] # <<>>
    /\ last.value # <<>>
    /\ Len(InCategories.value) > Len(last.value)
    /\ \E i \in DOMAIN InCategories.value :
          /\ InCategories.value[i].apc
          /\ area_requested(InCategories.value[i], InCategories.heap, last.args[1])

(***************************************************************************)
(* Journals and the taxonomy.  In SpecJournalLinks two journals are linked *)
(* to the pooled categories and areas while the category c1 gets areas and *)
(* quartiles.                                                              *)
(***************************************************************************)

JournalPair == {"j1", "j2"}

JournalLinksInit ==
    /\ catObj = [c \in CatRefs |-> Category(PoolId(c))]
    /\ areaObj = [a \in AreaRefs |-> Area(PoolId(a))]
    /\ journalObj = [j \in JournalPair |->
                        Journal(IF j = "j1" THEN <<"J", "1">> ELSE <<"J", "2">>,
                                EmptyStr, EmptyStr, EmptyStr, FALSE, FALSE)]
    /\ journalQuery = <<>>
    /\ categoryQuery = <<>>
    /\ store = <<>>
    /\ db = <<>>
    /\ last = Idle

JournalLinksNext ==
    \/ \E j \in JournalPair, c \in CatRefs : CallJournalAddCategory(j, c)
    \/ \E j \in JournalPair, a \in AreaRefs : CallJournalAddArea(j, a)
    \/ \E a \in AreaRefs : CallCategoryAddArea("c1", a)
    \/ \E q \in {sQ1, sQ2} : CallAddQuartile("c1", q)

SpecJournalLinks == JournalLinksInit /\ [][JournalLinksNext]_vars

\* the linked sets of the taxonomy objects hold taxonomy objects only
taxonomy_only(cats, areas) ==
    /\ \A c \in DOMAIN cats : Refs(cats[c].areas) \subseteq AreaRefs
    /\ \A a \in DOMAIN areas : Refs(areas[a].categories) \subseteq CatRefs

\* C24: a call that changes a journal's linked categories or areas changes
\* that journal's linked sets alone: the areas and quartiles of every
\* Category, the categories of every Area and the other journals stay as
\* they are, and no Category or Area ever refers to a journal.
C24_JournalLinksOneWay ==
    [][/\ journalObj' # journalObj =>
              /\ catObj' = catObj
              /\ areaObj' = areaObj
              /\ \E j \in JournalPair :
                    /\ \A k \in JournalPair \ {j} : journalObj'[k] = journalObj[k]
                    /\ journalObj'[j] =
                          [journalObj[j] EXCEPT !.categories = journalObj'[j].categories,
                                                !.areas = journalObj'[j].areas]
       /\ taxonomy_only(catObj', areaObj')]_vars

\* the two journals are linked to different categories and areas, and the
\* category c1 has an area and a quartile
C24_Witness ==
    /\ Refs(journalObj["j1"].categories) = {"c1"}
    /\ Refs(journalObj["j2"].categories) = {"c2"}
    /\ Refs(journalObj["j1"].areas) = {"a1", "a2"}
    /\ journalObj["j2"].areas = <<>>
    /\ Refs(catObj["c1"].areas) = {"a2"}
    /\ catObj["c1"].quartiles # <<>>

(***************************************************************************)
(* The quartile of a journal in a category                                 *)
(***************************************************************************)

\* the merged journal_categories map records for canonical id J a requested
\* category together with a requested quartile
recorded_with_quartile(exports, J, categories, quartiles) ==
    LET of_journal == dict_get(exports.journal_categories, J, <<>>)
    IN \E cid \in DOMAIN of_journal :
           /\ normalise_identifier(cid) \in normalised_set(categories)
           /\ \E q \in of_journal[cid] : normalise_identifier(q) \in normalised_set(quartiles)

\* C25: getJournalsInCategoriesWithQuartile(C, Q) with non-empty C and Q
\* returns a journal only if the merged journal_categories map records,
\* for a canonical id the journal's row resolves to, a category of C
\* together with a quartile of Q; the quartile another journal has in the
\* category does not count.
C25_OwnQuartile ==
    (/\ Returns("getJournalsInCategoriesWithQuartile")
     /\ normalised_set(last.args[1]) # {}
     /\ normalised_set(last.args[2]) # {}) =>
        \A i \in DOMAIN last.value :
            \E n \in DOMAIN MergedAll.frame.rows :
                /\ same_fields(last.value[i], MergedAll.frame.rows[n])
                /\ \E J \in Range(canonical_ids(MergedAll.frame.rows[n], MergedExport)) :
                       recorded_with_quartile(MergedExport, J, last.args[1], last.args[2])

(***************************************************************************)
(* The license filter before and after the merge                           *)
(***************************************************************************)

\* the ids of the journals of a list
ids_of(journals) == {journals[i].id : i \in DOMAIN journals}

\* C26: getJournalsInAreasWithLicense([], L) returns journals with the ids
\* of the journals getJournalsWithLicense(L) returns, whatever rows the
\* registered journal handlers hold.
C26_SameIdsAsLicenseQuery ==
    (Returns("getJournalsInAreasWithLicense") /\ last.args[1] = <<>>) =>
        /\ getJournalsWithLicense(Engine, last.args[2]).raised = "none"
        /\ ids_of(last.value) = ids_of(getJournalsWithLicense(Engine, last.args[2]).value)


(***************************************************************************)
(* The specification SpecStore: one in-memory journal store, fed batches   *)
(* of load_csv records that repeat an id inside a batch and across         *)
(* batches, and asked by_identifier.                                       *)
(***************************************************************************)

\* the number of add_records calls on the store
MaxLoads == 3

\* the record lists load_csv hands to add_records: a CSV file whose rows
\* repeat an EISSN, and files that list a journal again under other names
StoreBatches == {<<R1, R1b>>, <<R1>>, <<R1b>>, <<R2, R1b, R1>>, <<R3>>, <<R2>>}

\* the identifiers by_identifier is asked for
StoreIds == {EmptyStr, s12b, <<"a", "l">>, <<"3", "4">>, <<"z">>}

StoreInit ==
    /\ catObj = <<>>
    /\ areaObj = <<>>
    /\ journalObj = <<>>
    /\ journalQuery = <<>>
    /\ categoryQuery = <<>>
    /\ store = [h \in JHandlers |-> [EmptyStore EXCEPT !.repository = TRUE]]
    /\ db = [k \in CHandlers |-> EmptyDb]
    /\ last = Idle

\* the table a store call returned, as the record of the call keeps it
Table(result) == [raised |-> result.raised, value |-> result.frame, heap |-> EmptyHeap]

\* _InMemoryJournalStore.add_records(records) on the store of h
CallAddRecords(h, records) ==
    /\ store[h].fed < MaxLoads
    /\ ~add_records_raises(store[h], records)
    /\ store' = [store EXCEPT ![h] = [add_records(@, records) EXCEPT !.fed = @ + 1]]
    /\ last' = Call("add_records", <<h, records>>, Result(<<>>, EmptyHeap))
    /\ UNCHANGED <<journalQuery, categoryQuery, db, objVars>>

\* _InMemoryJournalStore.by_identifier(identifier) on the store of h
CallByIdentifier(h, identifier) ==
    /\ last' = Call("by_identifier", <<h, identifier>>,
                    Table(by_identifier(store[h], identifier)))
    /\ UNCHANGED <<journalQuery, categoryQuery, store, db, objVars>>

StoreNext ==
    \/ \E records \in StoreBatches : CallAddRecords("h1", records)
    \/ \E identifier \in StoreIds : CallByIdentifier("h1", identifier)

SpecStore == StoreInit /\ [][StoreNext]_vars

\* the rows of frame whose id is id
rows_with_id(frame, id) == SelectSeq(frame.rows, LAMBDA row : row.id = id)

\* the ids of the rows of frame
frame_ids(frame) == {frame.rows[i].id : i \in DOMAIN frame.rows}

\* the last record of records with the id
latest_record(records, id) ==
    records[CHOOSE i \in DOMAIN records :
                /\ records[i].id = id
                /\ \A k \in DOMAIN records : records[k].id = id => k <= i]

\* after is before with the records added: one row per id, the row of the
\* last record of the batch with that id, else the row before had
one_row_latest(before, records, after) ==
    /\ frame_ids(after) = frame_ids(before) \cup frame_ids(from_records(records))
    /\ \A id \in frame_ids(after) :
          /\ Len(rows_with_id(after, id)) = 1
          /\ IF id \in frame_ids(from_records(records))
             THEN rows_with_id(after, id)[1]
                      = from_records(<<latest_record(records, id)>>).rows[1]
             ELSE rows_with_id(after, id) = rows_with_id(before, id)

\* C27: every add_records call leaves the store's table with one row per
\* journal id: for an id of the batch the row of the batch's last record with
\* that id, for any other id the row the table had.  The table starts empty,
\* so after any sequence of calls it holds one row per id, the most recently
\* added one.
C27_OneRowPerId ==
    [][last'.op = "add_records" =>
          one_row_latest(store[last'.args[1]].frame, last'.args[2],
                         store'[last'.args[1]].frame)]_vars

\* C28: the rows by_identifier(x) returns all list, in the table as it is
\* now, an identifier with the normalised form of x.
C28_CurrentIdentifiersOnly ==
    Returns("by_identifier") =>
        \A i \in DOMAIN last.value.rows :
            any_identifier_matches(last.args[2], last.value.rows[i].identifiers)


(***************************************************************************)
(* C29: journals without a linked category                                 *)
(***************************************************************************)

\* the journals of journals that carry at least one category
with_category(journals) ==
    SelectSeq(journals, LAMBDA journal : getCategories(journal) # <<>>)

\* C29: with no category and no quartile requested,
\* getJournalsInCategoriesWithQuartile returns the journals of getAllJournals
\* that carry at least one category, in their order; whatever the arguments,
\* every journal it or the diamond query returns carries a category.
C29_LinkedCategoryNeeded ==
    /\ (/\ Returns("getJournalsInCategoriesWithQuartile")
        /\ last.args[1] = <<>>
        /\ last.args[2] = <<>>) =>
           /\ AllJournals.raised = "none"
           /\ last.value = with_category(AllJournals.value)
    /\ (\/ Returns("getJournalsInCategoriesWithQuartile")
        \/ Returns("getDiamondJournalsInAreasAndCategoriesWithQuartile")) =>
           with_category(last.value) = last.value

\* the query ran with both collections empty, returned journals, and left
\* out a journal of getAllJournals that carries no category
C29_Witness ==
    /\ Returns("getJournalsInCategoriesWithQuartile")
    /\ last.args[1] = <<>>
    /\ last.args[2] = <<>>
    /\ last.value # <<>>
    /\ \E i \in DOMAIN AllJournals.value :
          /\ getCategories(AllJournals.value[i]) = <<>>
          /\ AllJournals.value[i] \notin Range(last.value)

====
